---- MODULE Spec2Model ----
(***************************************************************************)
(* Verification model of qerun-wallet-analyzer.                            *)
(*                                                                         *)
(* The module holds several specifications over one set of variables:      *)
(*   Spec      the provider adapters' fan-out across chains, followed by   *)
(*             getWalletHistory's normalisation of what was fetched;       *)
(*   SpecPage  the cursor pagination of one Coinbase network fetch;        *)
(*   SpecDir   normalizeTransaction applied to one raw transaction;        *)
(*   SpecCap   getWalletHistory's ordering and cap on long lists;          *)
(*   SpecTok   analyzeWallet on fetched balances: buildTokens and summary; *)
(*   SpecRisk  computeRisk on token lists of a given total.                *)
(*                                                                         *)
(* Conventions.  A JavaScript null/undefined string is Null; a string that *)
(* the code inspects character by character (an address) is a sequence of  *)
(* one-character strings; a missing number is NoNum.  Money is counted in  *)
(* units of half of VALUE_EPSILON (0.00005 USD), so VALUE_EPSILON is 2.    *)
(***************************************************************************)
EXTENDS Integers, Sequences, FiniteSets, TLC

VARIABLES
    phase,      \* "idle" | "running" | "done" | "normalized": position of the adapter call
    adapter,    \* which fan-out function is being called
    creds,      \* TRUE iff the provider's credentials are configured
    networks,   \* the configured chains after resolveNetworks()/resolveChains()
    task,       \* task[i]: the per-chain attempt of networks[i]
    settled,    \* indices of the tasks in the order in which they settled
    outcome,    \* what the adapter call produced: pending, return or throw
    address,    \* the queried address
    history,    \* what getWalletHistory produced from the outcome
    analysis,   \* what analyzeWallet produced from the outcome
    priceMap,   \* the price map fetchCoinGeckoPrices produced, by price key
    clock,      \* Date.now() of the server process
    buckets,    \* rate-limit.ts: the buckets map, by key
    cache,      \* the routes' cache maps, by endpoint and address
    reqs,       \* the HTTP requests the server is handling
    given,      \* the argument of a function called on its own
    returned    \* what that call returned, Null before it returns

\* The state of the server process around the library calls.
serverVars == <<clock, buckets, cache, reqs>>
callVars == <<phase, adapter, creds, networks, task, settled, outcome, address, history, analysis, priceMap>>

pureVars == <<given, returned>>

vars == <<phase, adapter, creds, networks, task, settled, outcome, address, history, analysis,
          priceMap, clock, buckets, cache, reqs, given, returned>>

-----------------------------------------------------------------------------
(* Bounds of the model *)

MaxNetworks == 2        \* configured chains per call
MaxBatch == 2           \* records in one provider page
MaxFanPages == 2        \* pages a provider serves per chain during a fan-out
MaxCapItems == 102      \* raw transactions handed to getWalletHistory in SpecCap
MaxHoldings == 3        \* balances handed to analyzeWallet in SpecTok
MaxCountedPages == 3    \* page requests of one Moralis fetch that are counted one by one
MaxCalls == 5           \* calls of applyRateLimit in SpecLimiter

(* Program constants *)

PAGE_SAFETY_LIMIT == 25     \* coinbase.ts: if (safety > 25) break
MORALIS_ITEM_CAP == 200     \* coinbase.ts: if (items.length >= 200) cursor = undefined
HISTORY_LIMIT == 100        \* wallet-history.ts: .slice(0, 100)
VALUE_EPSILON == 2          \* analyze-wallet.ts: 0.0001 USD, in units of 0.00005 USD
MAX_UNVERIFIED_TOKEN_VALUE == 200000000  \* analyze-wallet.ts: 10_000 USD, in the same units
MAX_UNIT_PRICE_FOR_UNVERIFIED == 5000    \* analyze-wallet.ts: 5_000 USD per token

-----------------------------------------------------------------------------
(* Generic helpers *)

Null == "<null>"
NoNum == 0 - 1

Range(s) == {s[i] : i \in 1..Len(s)}

SeqsUpTo(S, n) == UNION {[1..k -> S] : k \in 0..n}

RECURSIVE Flatten(_)
Flatten(ss) == IF ss = <<>> THEN <<>> ELSE Head(ss) \o Flatten(Tail(ss))

Min(S) == CHOOSE x \in S : \A y \in S : x <= y

\* String.prototype.trim on the strings of the model: " " is the only one
\* that holds white space.
Trim(s) == IF s = " " THEN "" ELSE s

\* JavaScript truthiness of a string-or-null value.
Truthy(s) == s # Null /\ s # ""

\* typeof s === "string" && s.trim() !== ""
NonBlank(s) == s # Null /\ Trim(s) # ""

\* new Map(): no key is present.
EmptyMap == <<>>

\* No price has been fetched.
NoPrices == EmptyMap

\* The server process has just started: empty maps, no request, no call.
ServerIdle ==
    /\ clock = 0
    /\ buckets = EmptyMap
    /\ cache = EmptyMap
    /\ reqs = <<>>
    /\ given = Null
    /\ returned = Null

-----------------------------------------------------------------------------
(* Chain identifiers *)

\* String.prototype.toLowerCase on the identifiers of the model.
LowerStr(s) ==
    CASE s = "ETH" -> "eth" [] s = "Base" -> "base" [] s = "0xC" -> "0xc" [] OTHER -> s

\* /^eip155:(\d+)$/ on the identifiers of the model.
EipDigits(s) == CASE s = "eip155:999" -> "999" [] OTHER -> Null

NETWORK_ID_MAP ==
    "ethereum-mainnet" :> "ethereum-mainnet" @@ "eth-mainnet" :> "ethereum-mainnet" @@ "ethereum" :> "ethereum-mainnet" @@
    "eth" :> "ethereum-mainnet" @@ "1" :> "ethereum-mainnet" @@ "eip155:1" :> "ethereum-mainnet" @@
    "base-mainnet" :> "base-mainnet" @@ "base" :> "base-mainnet" @@ "8453" :> "base-mainnet" @@
    "eip155:8453" :> "base-mainnet" @@ "base-sepolia" :> "base-sepolia" @@ "84532" :> "base-sepolia" @@
    "eip155:84532" :> "base-sepolia" @@ "polygon-mainnet" :> "polygon-mainnet" @@ "polygon" :> "polygon-mainnet" @@
    "matic-mainnet" :> "polygon-mainnet" @@ "137" :> "polygon-mainnet" @@ "eip155:137" :> "polygon-mainnet" @@
    "arbitrum-one" :> "arbitrum-one" @@ "arbitrum" :> "arbitrum-one" @@ "42161" :> "arbitrum-one" @@
    "eip155:42161" :> "arbitrum-one" @@ "optimism-mainnet" :> "optimism-mainnet" @@ "optimism" :> "optimism-mainnet" @@
    "10" :> "optimism-mainnet" @@ "eip155:10" :> "optimism-mainnet" @@ "bnb-mainnet" :> "bnb-mainnet" @@
    "bsc" :> "bnb-mainnet" @@ "56" :> "bnb-mainnet" @@ "eip155:56" :> "bnb-mainnet" @@
    "avalanche-mainnet" :> "avalanche-mainnet" @@ "avalanche" :> "avalanche-mainnet" @@ "43114" :> "avalanche-mainnet" @@
    "eip155:43114" :> "avalanche-mainnet" @@ "fantom-mainnet" :> "fantom-mainnet" @@ "fantom" :> "fantom-mainnet" @@
    "250" :> "fantom-mainnet" @@ "eip155:250" :> "fantom-mainnet" @@ "zksync" :> "zksync" @@
    "zksync-era" :> "zksync" @@ "324" :> "zksync" @@ "eip155:324" :> "zksync" @@
    "linea" :> "linea-mainnet" @@ "linea-mainnet" :> "linea-mainnet" @@ "1101" :> "linea-mainnet" @@
    "eip155:1101" :> "linea-mainnet" @@ "scroll" :> "scroll-mainnet" @@ "scroll-mainnet" :> "scroll-mainnet" @@
    "534352" :> "scroll-mainnet" @@ "eip155:534352" :> "scroll-mainnet" @@ "metis" :> "metis-andromeda" @@
    "metis-andromeda" :> "metis-andromeda" @@ "1088" :> "metis-andromeda" @@ "eip155:1088" :> "metis-andromeda" @@
    "klaytn" :> "klaytn-mainnet" @@ "8217" :> "klaytn-mainnet" @@ "eip155:8217" :> "klaytn-mainnet" @@
    "celo" :> "celo-mainnet" @@ "celo-mainnet" :> "celo-mainnet" @@ "42220" :> "celo-mainnet" @@
    "eip155:42220" :> "celo-mainnet" @@ "moonbeam" :> "moonbeam-mainnet" @@ "1284" :> "moonbeam-mainnet" @@
    "eip155:1284" :> "moonbeam-mainnet" @@ "moonriver" :> "moonriver-mainnet" @@ "1285" :> "moonriver-mainnet" @@
    "eip155:1285" :> "moonriver-mainnet" @@ "aurora" :> "aurora-mainnet" @@ "1313161554" :> "aurora-mainnet" @@
    "eip155:1313161554" :> "aurora-mainnet" @@ "cronos" :> "cronos-mainnet" @@ "25" :> "cronos-mainnet" @@
    "eip155:25" :> "cronos-mainnet" @@ "gnosis" :> "gnosis-mainnet" @@ "xdai" :> "gnosis-mainnet" @@
    "100" :> "gnosis-mainnet" @@ "eip155:100" :> "gnosis-mainnet" @@ "harmony" :> "harmony-mainnet" @@
    "1666600000" :> "harmony-mainnet" @@ "eip155:1666600000" :> "harmony-mainnet"

\* coinbase.ts toNetworkId
toNetworkId(entry) ==
    IF ~Truthy(entry) THEN Null
    ELSE LET lowered == LowerStr(entry) IN
         IF lowered \in DOMAIN NETWORK_ID_MAP THEN NETWORK_ID_MAP[lowered]
         ELSE IF EipDigits(lowered) # Null THEN EipDigits(lowered)
         ELSE entry      \* all-digit entries and anything else pass through

\* coinbase.ts resolveNetworks: no entry is dropped for being a duplicate.
resolveNetworks(entries) ==
    LET resolved == SelectSeq([i \in 1..Len(entries) |-> toNetworkId(entries[i])], Truthy)
    IN IF Len(resolved) > 0 THEN resolved ELSE <<"ethereum-mainnet">>

\* Moralis resolveChains / Covalent resolveChains: the entries as configured.
resolveChains(entries, dflt) == IF Len(entries) > 0 THEN entries ELSE <<dflt>>

HISTORY_CHAIN_ALIAS_MAP ==
    "eth" :> "eth" @@ "ethereum" :> "eth" @@ "1" :> "eth" @@
    "eip155:1" :> "eth" @@ "ethereum-mainnet" :> "eth" @@ "base" :> "base" @@
    "base-sepolia" :> "base-sepolia" @@ "8453" :> "base" @@ "eip155:8453" :> "base" @@
    "base-mainnet" :> "base" @@ "polygon" :> "polygon" @@ "137" :> "polygon" @@
    "eip155:137" :> "polygon" @@ "polygon-mainnet" :> "polygon" @@ "arbitrum" :> "arbitrum" @@
    "42161" :> "arbitrum" @@ "eip155:42161" :> "arbitrum" @@ "arbitrum-one" :> "arbitrum" @@
    "arbitrum-mainnet" :> "arbitrum" @@ "optimism" :> "optimism" @@ "10" :> "optimism" @@
    "eip155:10" :> "optimism" @@ "optimism-mainnet" :> "optimism" @@ "bsc" :> "bsc" @@
    "56" :> "bsc" @@ "eip155:56" :> "bsc" @@ "bnb-mainnet" :> "bsc" @@
    "avalanche" :> "avalanche" @@ "43114" :> "avalanche" @@ "eip155:43114" :> "avalanche" @@
    "avalanche-mainnet" :> "avalanche" @@ "fantom" :> "fantom" @@ "250" :> "fantom" @@
    "eip155:250" :> "fantom" @@ "fantom-mainnet" :> "fantom" @@ "zksync" :> "zksync" @@
    "324" :> "zksync" @@ "eip155:324" :> "zksync" @@ "zksync-era" :> "zksync" @@
    "linea" :> "linea" @@ "1101" :> "linea" @@ "eip155:1101" :> "linea" @@
    "linea-mainnet" :> "linea" @@ "scroll" :> "scroll" @@ "534352" :> "scroll" @@
    "eip155:534352" :> "scroll" @@ "scroll-mainnet" :> "scroll" @@ "metis" :> "metis" @@
    "1088" :> "metis" @@ "eip155:1088" :> "metis" @@ "metis-andromeda" :> "metis" @@
    "klaytn" :> "klaytn" @@ "8217" :> "klaytn" @@ "eip155:8217" :> "klaytn" @@
    "celo" :> "celo" @@ "42220" :> "celo" @@ "eip155:42220" :> "celo" @@
    "celo-mainnet" :> "celo" @@ "moonbeam" :> "moonbeam" @@ "1284" :> "moonbeam" @@
    "eip155:1284" :> "moonbeam" @@ "moonriver" :> "moonriver" @@ "1285" :> "moonriver" @@
    "eip155:1285" :> "moonriver" @@ "aurora" :> "aurora" @@ "1313161554" :> "aurora" @@
    "eip155:1313161554" :> "aurora" @@ "cronos" :> "cronos" @@ "25" :> "cronos" @@
    "eip155:25" :> "cronos" @@ "gnosis" :> "gnosis" @@ "xdai" :> "gnosis" @@
    "100" :> "gnosis" @@ "eip155:100" :> "gnosis" @@ "harmony" :> "harmony" @@
    "1666600000" :> "harmony" @@ "eip155:1666600000" :> "harmony"

\* wallet-history.ts normalizeChain
normalizeChain(networkId) ==
    IF networkId = Null THEN "eth"
    ELSE LET key == LowerStr(networkId) IN
         IF key \in DOMAIN HISTORY_CHAIN_ALIAS_MAP THEN HISTORY_CHAIN_ALIAS_MAP[key] ELSE key

-----------------------------------------------------------------------------
(* Raw Coinbase transactions *)

NullAddr == <<"<null>">>

\* A CoinbaseTransactionResource (with its optional nested `content`) in which
\* every optional field is absent.
EmptyTx ==
    [hash |-> Null, transaction_hash |-> Null, metadata_hash |-> Null,
     content_hash |-> Null, block_hash |-> Null, block_height |-> NoNum,
     network_id |-> Null, content_network_id |-> Null,
     block_timestamp |-> NoNum, content_timestamp |-> NoNum,
     from |-> NullAddr, to |-> NullAddr, content_from |-> NullAddr, content_to |-> NullAddr,
     transfers |-> <<>>]

\* A transaction that only carries identifying fields.
IdTx(hash, block_hash, block_height, network_id) ==
    [EmptyTx EXCEPT !.hash = hash, !.block_hash = block_hash,
                    !.block_height = block_height, !.network_id = network_id]

\* coinbase.ts fetchTransactionsForNetwork, lines 325-334: the key under which a
\* record is deduplicated within one network fetch.
DedupeKey(tx, networkId) ==
    LET normalizedNetwork == IF tx.network_id # Null THEN tx.network_id ELSE networkId IN
    IF Truthy(tx.hash) THEN <<normalizedNetwork, "hash", tx.hash, "", NoNum>>
    ELSE IF Truthy(tx.metadata_hash) THEN <<normalizedNetwork, "hash", tx.metadata_hash, "", NoNum>>
    ELSE <<normalizedNetwork, "block",
           normalizedNetwork,
           IF tx.block_hash # Null THEN tx.block_hash ELSE "",
           tx.block_height>>

\* lines 324-345: batch.forEach with the `seen` set; acc = [items, seen].
RECURSIVE AddBatch(_, _, _)
AddBatch(acc, batch, networkId) ==
    IF batch = <<>> THEN acc
    ELSE LET tx == Head(batch)
             key == DedupeKey(tx, networkId)
             normalizedNetwork == IF tx.network_id # Null THEN tx.network_id ELSE networkId
         IN IF key \in acc.seen
            THEN AddBatch(acc, Tail(batch), networkId)
            ELSE AddBatch([items |-> Append(acc.items, [tx EXCEPT !.network_id = normalizedNetwork]),
                           seen |-> acc.seen \cup {key}],
                          Tail(batch), networkId)

-----------------------------------------------------------------------------
(* Errors, tasks and provider responses *)

\* A JavaScript Error object: its class, its message and the task whose request
\* created it (0 when the adapter itself created it).
Err(class, message, origin) == [class |-> class, message |-> message, origin |-> origin]
NoError == Err("none", "", 0)

ConfigClass(a) ==
    CASE a \in {"coinbaseTx", "coinbaseBal"} -> "CoinbaseConfigurationError"
      [] a \in {"moralisTx", "moralisBal"} -> "MoralisConfigurationError"
      [] OTHER -> "CovalentConfigurationError"

\* requireCredentials / requireApiKey failing.
ConfigMessage(a) ==
    CASE a \in {"coinbaseTx", "coinbaseBal"} ->
             "COINBASE_API_KEY and COINBASE_API_SECRET must be configured"
      [] a \in {"moralisTx", "moralisBal"} -> "MORALIS_API_KEY is not configured"
      [] OTHER -> "COVALENT_API_KEY is not configured"

ConfigError(a, i) == Err(ConfigClass(a), ConfigMessage(a), i)

\* `throw new Error(`... API error (${response.status}): ...`)`
UpstreamError(status, i) == Err("Error", status, i)

Adapters == {"coinbaseTx", "coinbaseBal", "moralisTx", "moralisBal", "covalentTx", "covalentBal"}
SettleAllAdapters == {"coinbaseTx", "coinbaseBal", "moralisTx", "moralisBal"}

\* A per-chain attempt.  cursor, safety, items and seen are the locals of the
\* paginating loop; requests counts the network requests the attempt has sent and
\* fresh records that every page so far came with a usable next cursor that
\* differs from the cursor sent (both are observations, not program state).
NewTask ==
    [pc |-> "fetching", cursor |-> Null, safety |-> 0, requests |-> 0, fresh |-> TRUE,
     items |-> <<>>, seen |-> {}, reason |-> NoError]

\* The attempt throws e: its locals (items, seen, cursor) are gone.
Reject(t, e) ==
    [t EXCEPT !.pc = "rejected", !.reason = e, !.items = <<>>, !.seen = {}, !.cursor = Null]

\* The attempt returns items.
Fulfil(t, items) ==
    [t EXCEPT !.pc = "fulfilled", !.items = items, !.seen = {}, !.cursor = Null]

\* A plausible slip: a repeated cursor is followed like any other.
cursorAfterIgnoringRepeat(nextCursor, cursor) == IF ~Truthy(nextCursor) THEN Null ELSE nextCursor

\* coinbase.ts lines 352-356: the cursor of the next request, Null for none.
cursorAfter(nextCursor, cursor) ==
    IF ~Truthy(nextCursor) \/ nextCursor = cursor THEN Null ELSE nextCursor

\* coinbase.ts fetchTransactionsForNetwork, one iteration of the do-while loop
\* on a successful response: lines 322-366.  resp = [data, next_cursor, cursor].
CoinbaseTxPageStep(t, networkId, resp) ==
    LET acc == AddBatch([items |-> t.items, seen |-> t.seen], resp.data, networkId)
        nextCursor == IF resp.next_cursor # Null THEN resp.next_cursor ELSE resp.cursor
        cursor == cursorAfter(nextCursor, t.cursor)
        safety == t.safety + 1
        more == ~(safety > PAGE_SAFETY_LIMIT) /\ Truthy(cursor)
        t2 == [t EXCEPT !.items = acc.items, !.seen = acc.seen, !.cursor = cursor,
                        !.safety = safety, !.requests = @ + 1,
                        !.fresh = @ /\ Truthy(nextCursor) /\ nextCursor # t.cursor]
    IN IF more THEN t2 ELSE Fulfil(t2, t2.items)

\* coinbase.ts fetchTransactionsForChain (Moralis), one iteration: lines 735-765.
\* resp = [data, cursor].
\* A MoralisTransaction as part_003 reads it, and `{ ...tx, chain }`.
MoralisTx(hash, block_timestamp, from_address, to_address) ==
    [hash |-> hash, block_timestamp |-> block_timestamp, from_address |-> from_address,
     to_address |-> to_address, chain |-> Null]
WithChain(tx, chain) == [tx EXCEPT !.chain = chain]

MoralisTxPageStep(t, chain, resp) ==
    LET items == t.items \o [k \in 1..Len(resp.data) |-> WithChain(resp.data[k], chain)]
        cursor == IF Len(items) >= MORALIS_ITEM_CAP THEN Null ELSE resp.cursor
        t2 == [t EXCEPT !.items = items, !.cursor = cursor, !.requests = @ + 1,
                        !.fresh = @ /\ Truthy(resp.cursor) /\ resp.cursor # t.cursor]
    IN IF Truthy(cursor) THEN t2 ELSE Fulfil(t2, items)

\* coinbase.ts fetchBalancesForNetwork: lines 398-411.
CoinbaseBalStep(t, networkId, data) ==
    Fulfil([t EXCEPT !.requests = @ + 1],
           [k \in 1..Len(data) |->
               [data[k] EXCEPT !.network_id = IF @ # Null THEN @ ELSE networkId]])

\* coinbase.ts fetchBalancesForChain (Moralis): lines 636-698; the native holding
\* is always returned, also when the provider lists no native token.
MoralisBalStep(t, chain, data) ==
    Fulfil([t EXCEPT !.requests = @ + 1],
           <<[id |-> "native", chain |-> chain]>>
             \o [k \in 1..Len(data) |-> [id |-> data[k], chain |-> chain]])

\* covalent.ts, the per-chain async closure: lines 81-114 and 191-225.
CovalentStep(t, chain, data) ==
    Fulfil([t EXCEPT !.requests = @ + 1],
           [k \in 1..Len(data) |-> [id |-> data[k], chain |-> chain]])

-----------------------------------------------------------------------------
(* The join of a fan-out *)

Pending == [kind |-> "pending", value |-> <<>>, error |-> NoError]
Return(v) == [kind |-> "return", value |-> v, error |-> NoError]
Throw(e) == [kind |-> "throw", value |-> <<>>, error |-> e]

\* The fulfilled values, concatenated in configured order.
FulfilledValues(tasks) ==
    Flatten([i \in 1..Len(tasks) |-> IF tasks[i].pc = "fulfilled" THEN tasks[i].items ELSE <<>>])

\* The rejection reasons, in configured order (settlements.forEach).
RejectionReasons(tasks) ==
    LET rejected == SelectSeq(tasks, LAMBDA t : t.pc = "rejected")
    IN [k \in 1..Len(rejected) |-> rejected[k].reason]

\* A plausible slip: the errors collected in the order the failures happened.
CoinbaseJoinByTime(tasks, order) ==
    LET rejectedIdx == SelectSeq(order, LAMBDA i : tasks[i].pc = "rejected")
        values == FulfilledValues(tasks)
    IN IF Len(values) = 0 /\ Len(rejectedIdx) > 0
       THEN Throw(tasks[rejectedIdx[1]].reason)
       ELSE Return(values)

\* coinbase.ts fetchCoinbaseTransactions lines 287-304, fetchCoinbaseBalances
\* lines 378-395: what follows `await Promise.allSettled(...)`.
CoinbaseJoin(tasks, order) ==
    LET transactions == FulfilledValues(tasks)
        errors == RejectionReasons(tasks)
    IN IF Len(transactions) = 0 /\ Len(errors) > 0
       THEN Throw(errors[1])
       ELSE Return(transactions)

\* coinbase.ts fetchMoralisTransactions lines 710-728, fetchMoralisBalances
\* lines 615-633: an empty result is thrown, as a new plain Error.
MoralisJoin(tasks, emptyMessage) ==
    LET transactions == FulfilledValues(tasks)
        errors == RejectionReasons(tasks)
    IN IF Len(transactions) = 0
       THEN Throw(Err("Error", IF Len(errors) > 0 THEN errors[1].message ELSE emptyMessage, 0))
       ELSE Return(transactions)

\* covalent.ts lines 116 and 227-233: `await Promise.all(requests)` rejects with
\* the first rejection in time, whatever the other requests are doing, and
\* resolves once every request is fulfilled.
CovalentJoin(tasks, order) ==
    LET rejectedIdx == SelectSeq(order, LAMBDA i : tasks[i].pc = "rejected")
    IN IF Len(rejectedIdx) > 0 THEN Throw(tasks[rejectedIdx[1]].reason)
       ELSE IF \A i \in 1..Len(tasks) : tasks[i].pc = "fulfilled" THEN Return(FulfilledValues(tasks))
       ELSE Pending

\* The outcome of the adapter call, given the attempts and the order in which
\* they settled so far.
AdapterOutcome(a, tasks, order) ==
    IF a \in SettleAllAdapters
    THEN IF \E i \in 1..Len(tasks) : tasks[i].pc = "fetching" THEN Pending
         ELSE CASE a \in {"coinbaseTx", "coinbaseBal"} -> CoinbaseJoin(tasks, order)
                [] a = "moralisTx" -> MoralisJoin(tasks, "No transactions returned from Moralis")
                [] OTHER -> MoralisJoin(tasks, "No balances returned from Moralis")
    ELSE CovalentJoin(tasks, order)

-----------------------------------------------------------------------------
(* wallet-history.ts (Coinbase variant): normalisation of raw transactions *)

\* String.prototype.toLowerCase, character by character.
LowerChar(c) ==
    CASE c = "A" -> "a" [] c = "B" -> "b" [] c = "C" -> "c" [] c = "D" -> "d"
      [] c = "E" -> "e" [] c = "F" -> "f" [] c = "X" -> "x" [] OTHER -> c

\* wallet-history.ts safeLowerCase: null stays null.
safeLowerCase(a) == IF a = NullAddr THEN NullAddr ELSE [k \in 1..Len(a) |-> LowerChar(a[k])]

\* typeof a === "string" && a.trim() !== ""
AddrNonBlank(a) == a # NullAddr /\ \E k \in 1..Len(a) : a[k] # " "

\* wallet-history.ts selectHash: the first candidate that is a non-blank string.
selectHash(item) ==
    LET candidates == <<item.hash, item.transaction_hash, item.content_hash,
                        item.metadata_hash, item.block_hash>>
        usable == SelectSeq(candidates, NonBlank)
    IN IF Len(usable) > 0 THEN usable[1] ELSE Null

\* wallet-history.ts selectAddressFromTransfers
selectAddressFromTransfers(item, key) ==
    LET vals == [k \in 1..Len(item.transfers) |-> item.transfers[k][key]]
        usable == SelectSeq(vals, AddrNonBlank)
    IN IF Len(usable) > 0 THEN usable[1] ELSE NullAddr

\* wallet-history.ts extractAddress: party object, then content, then transfers.
extractAddress(item, key) ==
    LET direct == IF key = "from" THEN item.from ELSE item.to
        contentValue == IF key = "from" THEN item.content_from ELSE item.content_to
    IN IF AddrNonBlank(direct) THEN direct
       ELSE IF AddrNonBlank(contentValue) THEN contentValue
       ELSE selectAddressFromTransfers(item, key)

\* A plausible slip: the sender is looked at first.
determineDirectionSenderFirst(normalizedAddress, fromAddress, toAddress) ==
    IF safeLowerCase(fromAddress) = normalizedAddress THEN "out"
    ELSE IF safeLowerCase(toAddress) = normalizedAddress THEN "in"
    ELSE "internal"

\* wallet-history.ts determineDirection
determineDirection(normalizedAddress, fromAddress, toAddress) ==
    LET normalizedFrom == safeLowerCase(fromAddress)
        normalizedTo == safeLowerCase(toAddress)
    IN IF normalizedTo = normalizedAddress THEN "in"
       ELSE IF normalizedFrom = normalizedAddress THEN "out"
       ELSE "internal"

NullTx == [hash |-> Null, timestamp |-> NoNum, direction |-> "none", chain |-> Null]

\* wallet-history.ts normalizeTransaction; `now` stands for new Date().  Of the
\* WalletTransaction only hash, timestamp, direction and chain are modelled.
normalizeTransaction(item, normalizedAddress, now) ==
    LET chain == normalizeChain(IF item.content_network_id # Null
                                THEN item.content_network_id ELSE item.network_id)
        hash == selectHash(item)
        timestamp == IF item.content_timestamp # NoNum THEN item.content_timestamp
                     ELSE IF item.block_timestamp # NoNum THEN item.block_timestamp
                     ELSE now
        fromAddress == extractAddress(item, "from")
        toAddress == extractAddress(item, "to")
    IN IF hash = Null THEN NullTx
       ELSE [hash |-> hash, timestamp |-> timestamp,
             direction |-> determineDirection(normalizedAddress, fromAddress, toAddress),
             chain |-> chain]

\* A plausible slip: oldest first.
CompareHistoryAscending(a, b) == IF a.timestamp < b.timestamp THEN 0 - 1 ELSE 1

\* The comparator of getWalletHistory's sort: (a, b) => (a.timestamp > b.timestamp ? -1 : 1)
CompareHistory(a, b) == IF a.timestamp > b.timestamp THEN 0 - 1 ELSE 1

\* Array.prototype.sort with CompareHistory.  Two records are compared as the
\* engine's insertion does, the later one of the input against the earlier
\* one: the later one goes first only when it compares smaller.  A record's
\* place is one more than the number of records that go before it.
SortHistory(txs) ==
    LET n == Len(txs)
        GoesBefore(j, k) == IF j < k THEN CompareHistory(txs[k], txs[j]) >= 0
                            ELSE CompareHistory(txs[j], txs[k]) < 0
        place == [k \in 1..n |-> 1 + Cardinality({j \in (1..n) \ {k} : GoesBefore(j, k)})] \o <<>>
    IN [p \in 1..n |-> txs[CHOOSE k \in 1..n : place[k] = p]]

\* getWalletHistory lines 158-162: map, filter, sort, slice(0, 100).
BuildHistory(items, addr, now) ==
    LET normalizedAddress == safeLowerCase(addr)
        mapped == [k \in 1..Len(items) |-> normalizeTransaction(items[k], normalizedAddress, now)]
        kept == SelectSeq(mapped, LAMBDA tx : tx # NullTx)
        sorted == SortHistory(kept)
    IN SubSeq(sorted, 1, IF Len(sorted) < HISTORY_LIMIT THEN Len(sorted) ELSE HISTORY_LIMIT)

\* getWalletHistory lines 152-177, applied to what fetchCoinbaseTransactions
\* produced.
getWalletHistory(fetched, addr, now) ==
    IF fetched.kind = "return"
    THEN [kind |-> "return", history |-> BuildHistory(fetched.value, addr, now), error |-> NoError]
    ELSE [kind |-> "throw", history |-> <<>>,
          error |-> IF fetched.error.class = "CoinbaseConfigurationError"
                    THEN Err("Error", "Coinbase API credentials are missing or invalid", 0)
                    ELSE fetched.error]

Nows == {7, 8}

\* getWalletHistory resumes after `await fetchCoinbaseTransactions(address)`.
GetWalletHistory ==
    /\ phase = "done"
    /\ adapter = "coinbaseTx"
    /\ \E now \in Nows : history' = getWalletHistory(outcome, address, now)
    /\ phase' = "normalized"
    /\ UNCHANGED <<adapter, creds, networks, task, settled, outcome, address, analysis, priceMap, serverVars, pureVars>>

\* part_003 getWalletHistory (the Moralis variant), lines 57-90: one item.
moralisNormalize(item, normalizedAddress) ==
    [hash |-> item.hash, timestamp |-> item.block_timestamp,
     direction |-> IF safeLowerCase(item.to_address) = normalizedAddress THEN "in"
                   ELSE IF safeLowerCase(item.from_address) = normalizedAddress THEN "out"
                   ELSE "internal",
     chain |-> IF item.chain # Null THEN item.chain ELSE "eth"]

\* part_003 getWalletHistory, applied to what fetchMoralisTransactions produced.
moralisGetWalletHistory(fetched, addr) ==
    IF fetched.kind = "return"
    THEN [kind |-> "return",
          history |-> SortHistory([k \in 1..Len(fetched.value) |->
                                      moralisNormalize(fetched.value[k], safeLowerCase(addr))]),
          error |-> NoError]
    ELSE [kind |-> "throw", history |-> <<>>,
          error |-> IF fetched.error.class = "MoralisConfigurationError"
                    THEN Err("Error", "Moralis API key is missing or invalid", 0)
                    ELSE fetched.error]

\* part_003: getWalletHistory resumes after `await fetchMoralisTransactions(...)`.
MoralisGetWalletHistory ==
    /\ phase = "done"
    /\ adapter = "moralisTx"
    /\ history' = moralisGetWalletHistory(outcome, address)
    /\ phase' = "normalized"
    /\ UNCHANGED <<adapter, creds, networks, task, settled, outcome, address, analysis, priceMap, serverVars, pureVars>>

-----------------------------------------------------------------------------
(* analyze-wallet.ts: tokens, allocation, risk level and summary *)

\* String.prototype.toUpperCase on the symbols and chains of the model.
UpperStr(s) ==
    CASE s = "dai" -> "DAI" [] s = "usdc" -> "USDC" [] s = "eth" -> "ETH"
      [] s = "base" -> "BASE" [] OTHER -> s

STABLE_SYMBOLS ==
    {"USDC", "USDT", "DAI", "TUSD", "USDP", "USDD", "BUSD", "LUSD", "FRAX", "GUSD",
     "EURS", "USDN", "MIM", "CUSDC"}

ANALYZER_CHAIN_ALIAS_MAP ==
    "eth" :> "eth" @@ "ethereum" :> "eth" @@ "1" :> "eth" @@ "eip155:1" :> "eth" @@
    "ethereum-mainnet" :> "eth" @@ "base" :> "base" @@ "8453" :> "base" @@
    "eip155:8453" :> "base" @@ "base-mainnet" :> "base" @@ "polygon" :> "polygon" @@
    "137" :> "polygon" @@ "eip155:137" :> "polygon" @@ "polygon-mainnet" :> "polygon" @@
    "arbitrum" :> "arbitrum" @@ "42161" :> "arbitrum" @@ "eip155:42161" :> "arbitrum" @@
    "arbitrum-one" :> "arbitrum" @@ "optimism" :> "optimism" @@ "10" :> "optimism" @@
    "eip155:10" :> "optimism" @@ "optimism-mainnet" :> "optimism" @@ "bsc" :> "bsc" @@
    "56" :> "bsc" @@ "eip155:56" :> "bsc" @@ "bnb-mainnet" :> "bsc" @@
    "avalanche" :> "avalanche" @@ "43114" :> "avalanche" @@ "eip155:43114" :> "avalanche" @@
    "fantom" :> "fantom" @@ "250" :> "fantom" @@ "eip155:250" :> "fantom" @@
    "zksync" :> "zksync" @@ "324" :> "zksync" @@ "eip155:324" :> "zksync" @@
    "zksync-era" :> "zksync" @@ "linea" :> "linea" @@ "1101" :> "linea" @@
    "eip155:1101" :> "linea" @@ "scroll" :> "scroll" @@ "534352" :> "scroll" @@
    "eip155:534352" :> "scroll" @@ "metis" :> "metis" @@ "1088" :> "metis" @@
    "eip155:1088" :> "metis" @@ "klaytn" :> "klaytn" @@ "8217" :> "klaytn" @@
    "eip155:8217" :> "klaytn" @@ "celo" :> "celo" @@ "42220" :> "celo" @@
    "eip155:42220" :> "celo" @@ "moonbeam" :> "moonbeam" @@ "1284" :> "moonbeam" @@
    "eip155:1284" :> "moonbeam" @@ "moonriver" :> "moonriver" @@ "1285" :> "moonriver" @@
    "eip155:1285" :> "moonriver" @@ "aurora" :> "aurora" @@ "1313161554" :> "aurora" @@
    "eip155:1313161554" :> "aurora" @@ "cronos" :> "cronos" @@ "25" :> "cronos" @@
    "eip155:25" :> "cronos" @@ "gnosis" :> "gnosis" @@ "xdai" :> "gnosis" @@ "100" :> "gnosis" @@
    "eip155:100" :> "gnosis" @@ "harmony" :> "harmony" @@ "1666600000" :> "harmony" @@
    "eip155:1666600000" :> "harmony"

\* analyze-wallet.ts normalizeChain
analyzerNormalizeChain(networkId) ==
    IF networkId = Null THEN "eth"
    ELSE LET key == LowerStr(networkId) IN
         IF key \in DOMAIN ANALYZER_CHAIN_ALIAS_MAP THEN ANALYZER_CHAIN_ALIAS_MAP[key] ELSE key

\* analyze-wallet.ts normalizeSymbol
normalizeSymbol(value) ==
    IF value = Null THEN Null
    ELSE IF Trim(value) = "" THEN Null ELSE UpperStr(Trim(value))

\* A balance resource as buildTokens reads it.  address is asset.address,
\* amount is resolveAmount's result in units of 0.00005 token, value_usd is
\* extractUsdValue's result; Null and NoNum where the code has null.
\* is_verified is "true", "false" or Null (no flag).  change_usd is the 24h
\* change reported with the balance, read only when has_change.
Holding(symbol, asset_id, contract, amount, value_usd, flags, change) ==
    [network_id |-> "ethereum-mainnet", symbol |-> symbol, asset_id |-> asset_id,
     address |-> contract, amount |-> amount, value_usd |-> value_usd,
     is_scam |-> "scam" \in flags, native_type |-> "native" \in flags,
     is_verified |-> IF "unverified" \in flags THEN "false"
                     ELSE IF "verified" \in flags THEN "true" ELSE Null,
     has_change |-> change # <<>>, change_usd |-> IF change = <<>> THEN 0 ELSE change[1]]

-----------------------------------------------------------------------------
(* pricing/coingecko.ts: price keys and the price map *)

\* coingecko.ts CHAIN_ALIAS_MAP
PRICING_CHAIN_ALIAS_MAP ==
    "eth" :> "eth" @@ "ethereum" :> "eth" @@ "ethereum-mainnet" :> "eth" @@ "1" :> "eth" @@
    "eip155:1" :> "eth" @@ "base" :> "base" @@ "base-mainnet" :> "base" @@ "8453" :> "base" @@
    "eip155:8453" :> "base" @@ "base-sepolia" :> "base" @@ "polygon" :> "polygon" @@
    "polygon-mainnet" :> "polygon" @@ "matic-mainnet" :> "polygon" @@ "137" :> "polygon" @@
    "eip155:137" :> "polygon" @@ "arbitrum" :> "arbitrum" @@ "arbitrum-mainnet" :> "arbitrum" @@
    "arbitrum-one" :> "arbitrum" @@ "42161" :> "arbitrum" @@ "eip155:42161" :> "arbitrum" @@
    "optimism" :> "optimism" @@ "optimism-mainnet" :> "optimism" @@ "10" :> "optimism" @@
    "eip155:10" :> "optimism" @@ "bsc" :> "bsc" @@ "bnb-mainnet" :> "bsc" @@ "56" :> "bsc" @@
    "eip155:56" :> "bsc" @@ "avalanche" :> "avalanche" @@ "avalanche-mainnet" :> "avalanche" @@
    "43114" :> "avalanche" @@ "eip155:43114" :> "avalanche" @@ "fantom" :> "fantom" @@
    "fantom-mainnet" :> "fantom" @@ "250" :> "fantom" @@ "eip155:250" :> "fantom" @@
    "zksync" :> "zksync" @@ "324" :> "zksync" @@ "eip155:324" :> "zksync" @@ "linea" :> "linea" @@
    "1101" :> "linea" @@ "eip155:1101" :> "linea" @@ "scroll" :> "scroll" @@
    "534352" :> "scroll" @@ "eip155:534352" :> "scroll" @@ "metis" :> "metis" @@
    "metis-andromeda" :> "metis" @@ "1088" :> "metis" @@ "eip155:1088" :> "metis" @@
    "klaytn" :> "klaytn" @@ "8217" :> "klaytn" @@ "eip155:8217" :> "klaytn" @@ "celo" :> "celo" @@
    "42220" :> "celo" @@ "eip155:42220" :> "celo" @@ "moonbeam" :> "moonbeam" @@
    "1284" :> "moonbeam" @@ "eip155:1284" :> "moonbeam" @@ "moonriver" :> "moonriver" @@
    "1285" :> "moonriver" @@ "eip155:1285" :> "moonriver" @@ "aurora" :> "aurora" @@
    "1313161554" :> "aurora" @@ "eip155:1313161554" :> "aurora" @@ "cronos" :> "cronos" @@
    "25" :> "cronos" @@ "eip155:25" :> "cronos" @@ "gnosis" :> "gnosis" @@ "xdai" :> "gnosis" @@
    "100" :> "gnosis" @@ "eip155:100" :> "gnosis" @@ "harmony" :> "harmony" @@
    "1666600000" :> "harmony" @@ "eip155:1666600000" :> "harmony"

\* coingecko.ts COINGECKO_NATIVE_IDS, in the order of its entries: <<chain, id>>
COINGECKO_NATIVE_IDS ==
    <<<<"eth", "ethereum">>, <<"base", "ethereum">>, <<"polygon", "matic-network">>,
      <<"arbitrum", "ethereum">>, <<"optimism", "ethereum">>, <<"bsc", "binancecoin">>,
      <<"avalanche", "avalanche-2">>, <<"fantom", "fantom">>, <<"zksync", "ethereum">>,
      <<"linea", "ethereum">>, <<"scroll", "ethereum">>, <<"metis", "metis-token">>,
      <<"klaytn", "klay-token">>, <<"celo", "celo">>, <<"moonbeam", "moonbeam">>,
      <<"moonriver", "moonriver">>, <<"aurora", "aurora">>, <<"cronos", "crypto-com-chain">>,
      <<"gnosis", "xdai">>, <<"harmony", "harmony">>>>

\* coingecko.ts COINGECKO_PLATFORM_MAP, in the order of its entries: <<chain, platform>>
COINGECKO_PLATFORM_MAP ==
    <<<<"eth", "ethereum">>, <<"base", "base">>, <<"polygon", "polygon-pos">>,
      <<"arbitrum", "arbitrum-one">>, <<"optimism", "optimism">>, <<"bsc", "binance-smart-chain">>,
      <<"avalanche", "avalanche">>, <<"fantom", "fantom">>, <<"zksync", "zksync">>,
      <<"linea", "linea">>, <<"scroll", "scroll">>, <<"metis", "metis-andromeda">>,
      <<"klaytn", "klay-token">>, <<"celo", "celo">>, <<"moonbeam", "moonbeam">>,
      <<"moonriver", "moonriver">>, <<"aurora", "aurora">>, <<"cronos", "cronos">>,
      <<"gnosis", "xdai">>, <<"harmony", "harmony-shard-0">>>>

\* table[key] of a JavaScript object given by its entries; Null when absent.
Lookup(table, key) ==
    LET hits == SelectSeq(table, LAMBDA e : e[1] = key)
    IN IF Len(hits) > 0 THEN hits[1][2] ELSE Null

\* coingecko.ts findChainForNativeId: the first entry with that id.
findChainForNativeId(id) ==
    LET hits == SelectSeq(COINGECKO_NATIVE_IDS, LAMBDA e : e[2] = id)
    IN IF Len(hits) > 0 THEN hits[1][1] ELSE Null

\* coingecko.ts findChainForPlatform: PLATFORM_TO_CHAIN[platform] ?? null; the
\* reduce that builds PLATFORM_TO_CHAIN lets a later entry overwrite an earlier one.
findChainForPlatform(platform) ==
    LET hits == SelectSeq(COINGECKO_PLATFORM_MAP, LAMBDA e : e[2] = platform)
    IN IF Len(hits) > 0 THEN hits[Len(hits)][1] ELSE Null

\* coingecko.ts canonicalChain
canonicalChain(input) ==
    IF input = Null THEN Null
    ELSE LET lowered == LowerStr(input) IN
         IF lowered \in DOMAIN PRICING_CHAIN_ALIAS_MAP THEN PRICING_CHAIN_ALIAS_MAP[lowered]
         ELSE lowered

\* coingecko.ts lines 145 and 257: const chain = "ethereum"
PricingChain(balance) == "ethereum"

\* A price key `native:${chain}` or `token:${chain}:${address}`.
NativeKey(chain) == <<"native", chain, "">>
TokenKey(chain, contract) == <<"token", chain, contract>>
NoKey == <<>>

\* coingecko.ts buildPriceKey
buildPriceKey(balance) ==
    LET chain == PricingChain(balance) IN
    IF ~Truthy(chain) THEN NoKey
    ELSE IF Truthy(balance.address) THEN TokenKey(chain, LowerStr(balance.address))
    ELSE NativeKey(chain)

\* analyze-wallet.ts getPriceForHolding
getPriceForHolding(holding, prices) ==
    LET key == buildPriceKey(holding) IN
    IF key = NoKey THEN NoNum
    ELSE IF key \in DOMAIN prices THEN prices[key] ELSE NoNum

\* coingecko.ts fetchCoinGeckoPrices with fetchNativePrices and fetchTokenPrices.
\* quote is what CoinGecko answers: quote.native and quote.token are the usd
\* price of every id, respectively contract, that is asked for, NoNum when the
\* request fails or the answer holds no number.
fetchCoinGeckoPrices(holdings, quote) ==
    LET HasContract(k) == Truthy(holdings[k].address) /\ Trim(holdings[k].address) # ""
        tokens == {k \in 1..Len(holdings) : HasContract(k)}
        natives == {k \in 1..Len(holdings) : ~HasContract(k)}
        platformOf(k) == Lookup(COINGECKO_PLATFORM_MAP, PricingChain(holdings[k]))
        contractsByPlatform ==
            {<<platformOf(k), LowerStr(holdings[k].address)>> : k \in {j \in tokens : platformOf(j) # Null}}
        nativeIds ==
            {Lookup(COINGECKO_NATIVE_IDS, PricingChain(holdings[k])) :
                k \in {j \in natives : Lookup(COINGECKO_NATIVE_IDS, PricingChain(holdings[j])) # Null}}
        nativeKeys == IF quote.native = NoNum THEN {}
                      ELSE {NativeKey(findChainForNativeId(id)) :
                               id \in {i \in nativeIds : findChainForNativeId(i) # Null}}
        tokenKeys == IF quote.token = NoNum THEN {}
                     ELSE {TokenKey(findChainForPlatform(e[1]), e[2]) :
                              e \in {c \in contractsByPlatform : findChainForPlatform(c[1]) # Null}}
    IN [key \in nativeKeys \cup tokenKeys |->
           IF key[1] = "native" THEN quote.native ELSE quote.token]

-----------------------------------------------------------------------------
(* analyze-wallet.ts: from balances to tokens *)

\* analyze-wallet.ts deriveUsdValue24h
deriveUsdValue24h(holding, currentValue) ==
    IF ~holding.has_change THEN NoNum
    ELSE LET prior == currentValue - holding.change_usd
         IN IF prior > 0 THEN prior ELSE NoNum

\* A percentage kept exact: num / den * 100.
Pct(num, den) == [num |-> num, den |-> den]
ZeroPct == Pct(0, 1)

NullToken == [symbol |-> Null, protocol |-> Null, valueUsd |-> 0, allocationPct |-> ZeroPct,
              amount |-> 0, valueUsd24h |-> NoNum]

\* buildTokens line 131: amount != null && amount > VALUE_EPSILON
hasMeaningfulAmount(holding) == holding.amount # NoNum /\ holding.amount > VALUE_EPSILON

\* buildTokens lines 132-140: the oracle's price times the amount, else the
\* value reported with the balance, else 0.
effectiveValueUsd(holding, prices) ==
    LET priceFromMap == getPriceForHolding(holding, prices) IN
    IF priceFromMap # NoNum /\ hasMeaningfulAmount(holding) THEN priceFromMap * holding.amount
    ELSE IF holding.value_usd # NoNum THEN holding.value_usd
    ELSE 0

\* A plausible slip: a balance without a verification flag counts as unverified.
isVerifiedOnlyIfFlagged(holding) == holding.is_verified = "true"

\* buildTokens line 156: holding.asset?.is_verified ?? true
isVerified(holding) == IF holding.is_verified = Null THEN TRUE ELSE holding.is_verified = "true"

\* buildTokens lines 120-192: one holding becomes a token or is dropped.
tokenOfHolding(holding, prices) ==
    LET chain == analyzerNormalizeChain(holding.network_id)
        symbol == IF normalizeSymbol(holding.symbol) # Null THEN normalizeSymbol(holding.symbol)
                  ELSE IF normalizeSymbol(holding.asset_id) # Null
                       THEN normalizeSymbol(holding.asset_id)
                       ELSE UpperStr(chain)
        amount == holding.amount
        value == effectiveValueUsd(holding, prices)
        isNative == ~Truthy(holding.address) \/ holding.native_type
        \* unitPrice > MAX_UNIT_PRICE_FOR_UNVERIFIED, with unitPrice = value / amount
        unitPriceTooHigh == hasMeaningfulAmount(holding)
                            /\ value > MAX_UNIT_PRICE_FOR_UNVERIFIED * amount
    IN IF ~hasMeaningfulAmount(holding) /\ value < VALUE_EPSILON THEN NullToken
       ELSE IF holding.is_scam THEN NullToken
       ELSE IF ~isNative /\ ~isVerified(holding)
               /\ (value > MAX_UNVERIFIED_TOKEN_VALUE \/ unitPriceTooHigh)
            THEN NullToken
       ELSE [symbol |-> symbol, protocol |-> chain, valueUsd |-> value,
             allocationPct |-> ZeroPct, amount |-> IF amount = NoNum THEN 0 ELSE amount,
             valueUsd24h |-> deriveUsdValue24h(holding, value)]

\* tokens.reduce((acc, token) => acc + f(token), 0)
RECURSIVE SumOver(_, _)
SumOver(f, xs) == IF xs = <<>> THEN 0 ELSE f[Head(xs)] + SumOver(f, Tail(xs))

TotalValueUsd(tokens) ==
    SumOver([t \in Range(tokens) |-> t.valueUsd], tokens)

\* A plausible slip: smallest first.
CompareTokensAscending(a, b) == a.valueUsd - b.valueUsd

\* The comparator of buildTokens' sort: (a, b) => b.valueUsd - a.valueUsd
CompareTokens(a, b) == b.valueUsd - a.valueUsd

\* Array.prototype.sort with CompareTokens, as SortHistory.
SortTokens(tokens) ==
    LET n == Len(tokens)
        GoesBefore(j, k) == IF j < k THEN CompareTokens(tokens[k], tokens[j]) >= 0
                            ELSE CompareTokens(tokens[j], tokens[k]) < 0
        place == [k \in 1..n |-> 1 + Cardinality({j \in (1..n) \ {k} : GoesBefore(j, k)})] \o <<>>
    IN [p \in 1..n |-> tokens[CHOOSE k \in 1..n : place[k] = p]]

\* A plausible slip: a total of exactly epsilon is spread as well.
allocationOfFromEpsilon(valueUsd, total) ==
    IF total >= VALUE_EPSILON THEN Pct(valueUsd, total) ELSE ZeroPct

\* buildTokens lines 197-201: (token.valueUsd / total) * 100, or the 0 it was built with.
allocationOf(valueUsd, total) ==
    IF total > VALUE_EPSILON THEN Pct(valueUsd, total) ELSE ZeroPct

\* analyze-wallet.ts buildTokens
buildTokens(holdings, prices) ==
    LET mapped == [k \in 1..Len(holdings) |-> tokenOfHolding(holdings[k], prices)]
        kept == SelectSeq(mapped, LAMBDA t : t # NullToken)
        sorted == SortTokens(kept)
        total == TotalValueUsd(sorted)
    IN [k \in 1..Len(sorted) |->
           [sorted[k] EXCEPT !.allocationPct = allocationOf(sorted[k].valueUsd, total)]]

\* num / den >= a / b for den >= 0, b > 0 and num, a >= 0 (b * num >= a * den), without the products
\* b * num and a * den, which do not fit the machine integers of the checker.
AtLeastRatio(num, den, a, b) ==
    LET d == num - a * (den \div b) IN
    IF d >= a THEN TRUE ELSE IF d < 0 THEN FALSE ELSE b * d >= a * (den % b)

\* A plausible slip: the 40% boundary is left out of Conservative.
computeRiskAbove(tokens) ==
    LET total == TotalValueUsd(tokens)
        stable == SelectSeq(tokens, LAMBDA t : UpperStr(t.symbol) \in STABLE_SYMBOLS)
        stableValue == TotalValueUsd(stable)
    IN IF total < VALUE_EPSILON THEN "Moderate"
       ELSE IF ~AtLeastRatio(total, stableValue, 5, 2) THEN "Conservative"
       ELSE IF AtLeastRatio(stableValue, total, 3, 20) THEN "Moderate"
       ELSE "Aggressive"

\* analyze-wallet.ts computeRisk; stableRatio >= 0.4 is stableValue / total >= 2 / 5
\* and stableRatio >= 0.15 is stableValue / total >= 3 / 20.
computeRisk(tokens) ==
    LET total == TotalValueUsd(tokens)
        stable == SelectSeq(tokens, LAMBDA t : UpperStr(t.symbol) \in STABLE_SYMBOLS)
        stableValue == TotalValueUsd(stable)
    IN IF total < VALUE_EPSILON THEN "Moderate"
       ELSE IF AtLeastRatio(stableValue, total, 2, 5) THEN "Conservative"
       ELSE IF AtLeastRatio(stableValue, total, 3, 20) THEN "Moderate"
       ELSE "Aggressive"

\* A plausible slip: a token without a 24h value counts as worth nothing then.
valueUsd24hOrZero(token) == IF token.valueUsd24h # NoNum THEN token.valueUsd24h ELSE 0

\* analyzeWallet line 78: token.valueUsd24h ?? token.valueUsd
valueUsd24hOrCurrent(token) ==
    IF token.valueUsd24h # NoNum THEN token.valueUsd24h ELSE token.valueUsd

\* An insight: its title and tone; subject is the symbol the title starts with.
Insight(title, subject, tone) == [title |-> title, subject |-> subject, tone |-> tone]

\* A plausible slip: the concentration warning needs more than 45%.
dominatesAbove(topToken) ==
    /\ AtLeastRatio(topToken.allocationPct.num, topToken.allocationPct.den, 9, 20)
    /\ ~AtLeastRatio(topToken.allocationPct.den, topToken.allocationPct.num, 20, 9)

\* buildInsights line 267: topToken.allocationPct >= 45
dominates(topToken) ==
    AtLeastRatio(topToken.allocationPct.num, topToken.allocationPct.den, 9, 20)

\* A plausible slip: a stable share of exactly 40% is not yet strong.
reservesStrongAbove(stableValue, netWorth) == ~AtLeastRatio(netWorth, stableValue, 5, 2)

\* analyze-wallet.ts buildInsights line 252: stableRatio >= 0.4
reservesStrong(stableValue, netWorth) == AtLeastRatio(stableValue, netWorth, 2, 5)

\* analyze-wallet.ts buildInsights
buildInsights(tokens, netWorth, netWorthChange, riskLevel) ==
    LET stable == SelectSeq(tokens, LAMBDA t : UpperStr(t.symbol) \in STABLE_SYMBOLS)
        stableValue == TotalValueUsd(stable)
        stablecoin ==
            IF reservesStrong(stableValue, netWorth)
            THEN <<Insight("Stablecoin reserves are strong", Null, "positive")>>
            ELSE IF AtLeastRatio(netWorth, stableValue, 10, 1)
                 THEN <<Insight("Low stablecoin coverage", Null, "warning")>>
                 ELSE <<>>
        concentration ==
            IF Len(tokens) > 0 /\ dominates(tokens[1])
            THEN <<Insight("dominates exposure", tokens[1].symbol, "warning")>>
            ELSE <<>>
        magnitude == IF netWorthChange < 0 THEN 0 - netWorthChange ELSE netWorthChange
        momentum ==
            IF magnitude < VALUE_EPSILON
            THEN <<Insight("Flat daily performance", Null, "neutral")>>
            ELSE IF netWorthChange > 0
                 THEN <<Insight("Positive momentum", Null, "positive")>>
                 ELSE <<Insight("Net worth dipped", Null, "warning")>>
        conservative ==
            IF riskLevel = "Conservative" /\ netWorthChange > 0
            THEN <<Insight("Conservative stance working", Null, "positive")>>
            ELSE <<>>
    IN IF netWorth < VALUE_EPSILON
       THEN <<Insight("No balance detected", Null, "neutral")>>
       ELSE stablecoin \o concentration \o momentum \o conservative

NoSummary == [netWorth |-> 0, netWorthChange |-> 0, netWorthChangePct |-> ZeroPct,
              riskLevel |-> Null]
NoAnalysis == [kind |-> "pending", tokens |-> <<>>, summary |-> NoSummary,
               insights |-> <<>>, error |-> NoError]

\* analyzeWallet lines 74-94, from the tokens on.
summaryOf(tokens) ==
    LET netWorth == TotalValueUsd(tokens)
        netWorth24h == SumOver([t \in Range(tokens) |-> valueUsd24hOrCurrent(t)], tokens)
        netWorthChange == netWorth - netWorth24h
    IN [netWorth |-> netWorth, netWorthChange |-> netWorthChange,
        netWorthChangePct |-> IF netWorth24h > VALUE_EPSILON
                              THEN Pct(netWorthChange, netWorth24h) ELSE ZeroPct,
        riskLevel |-> computeRisk(tokens)]

\* analyze-wallet.ts analyzeWallet, applied to what fetchCoinbaseBalances and
\* fetchCoinGeckoPrices produced.
analyzeWallet(fetched, prices) ==
    IF fetched.kind = "return"
    THEN LET tokens == buildTokens(fetched.value, prices)
             summary == summaryOf(tokens)
         IN [kind |-> "return", tokens |-> tokens, summary |-> summary,
             insights |-> buildInsights(tokens, summary.netWorth, summary.netWorthChange,
                                        summary.riskLevel),
             error |-> NoError]
    ELSE [kind |-> "throw", tokens |-> <<>>, summary |-> NoSummary, insights |-> <<>>,
          error |-> IF fetched.error.class = "CoinbaseConfigurationError"
                    THEN Err("Error", "Coinbase API credentials are missing or invalid", 0)
                    ELSE fetched.error]

\* What CoinGecko may answer to the price requests of one analysis.
Quotes == {[native |-> NoNum, token |-> NoNum], [native |-> 5000, token |-> NoNum],
           [native |-> 5000, token |-> 2]}

\* analyzeWallet line 72: `await fetchCoinGeckoPrices(holdings)`, reached when
\* fetchCoinbaseBalances returned.
FetchPrices ==
    /\ phase = "done"
    /\ adapter = "coinbaseBal"
    /\ outcome.kind = "return"
    /\ \E quote \in Quotes : priceMap' = fetchCoinGeckoPrices(outcome.value, quote)
    /\ phase' = "priced"
    /\ UNCHANGED <<adapter, creds, networks, task, settled, outcome, address, history, analysis, serverVars, pureVars>>

\* analyzeWallet from line 74 on once the prices are there, or its catch block
\* when fetchCoinbaseBalances threw.
AnalyzeWallet ==
    /\ adapter = "coinbaseBal"
    /\ \/ phase = "priced"
       \/ phase = "done" /\ outcome.kind = "throw"
    /\ analysis' = analyzeWallet(outcome, priceMap)
    /\ phase' = "analyzed"
    /\ UNCHANGED <<adapter, creds, networks, task, settled, outcome, address, history, priceMap, serverVars, pureVars>>

-----------------------------------------------------------------------------
(* What the environment may supply *)

\* The configured chain list (COINBASE_NETWORK_IDS, MORALIS_CHAINS,
\* COVALENT_CHAIN_IDS) is a stretch of at most MaxNetworks entries of ConfigList.
ConfigList == <<"eth", "1", "base", "ETH">>
Configs ==
    {SubSeq(ConfigList, a, b) : a \in 1..Len(ConfigList), b \in 0..Len(ConfigList)}
      \cap SeqsUpTo(Range(ConfigList), MaxNetworks)
Statuses == {"429", "500"}                     \* non-success HTTP statuses
Cursors == {"c1", "c2"}
OpaqueIds == {"r1"}                            \* records whose fields the adapter does not read
QueriedAddr == <<"0", "x", "a">>

\* Raw transactions that differ in what identifies them.
FanTxs == {IdTx("h1", "b1", 1, Null), IdTx(Null, "b1", 2, Null)}

FanTxBatches == SeqsUpTo(FanTxs, MaxBatch)
OpaqueBatches == SeqsUpTo(OpaqueIds, MaxBatch)

\* A transaction Moralis lists: received by the queried address.
FanMoralisTxs == {MoralisTx("m1", 5, <<"0", "x", "b">>, <<"0", "X", "A">>)}
FanMoralisBatches == SeqsUpTo(FanMoralisTxs, MaxBatch)

\* A balance Coinbase lists, without a network_id of its own.
FanHoldings == {[Holding("USDT", Null, "0xa", 40000, 40000, {}, <<>>) EXCEPT !.network_id = Null]}
FanHoldingBatches == SeqsUpTo(FanHoldings, MaxBatch)

\* During a fan-out a provider serves at most MaxFanPages pages per chain.
FanCursors(t) == IF t.requests + 1 < MaxFanPages THEN {"c1", Null} ELSE {Null}

ResolveConfigured(a, entries) ==
    CASE a \in {"coinbaseTx", "coinbaseBal"} -> resolveNetworks(entries)
      [] a \in {"moralisTx", "moralisBal"} -> resolveChains(entries, "eth")
      [] OTHER -> resolveChains(entries, "eth-mainnet")

NoHistory == [kind |-> "pending", history |-> <<>>, error |-> NoError]

-----------------------------------------------------------------------------
(* Actions of the fan-out *)

InitFan ==
    /\ phase = "idle"
    /\ adapter \in Adapters
    /\ creds \in BOOLEAN
    /\ \E entries \in Configs : networks = ResolveConfigured(adapter, entries)
    /\ task = <<>>
    /\ settled = <<>>
    /\ outcome = Pending
    /\ address = QueriedAddr
    /\ history = NoHistory
    /\ analysis = NoAnalysis
    /\ priceMap = NoPrices
    /\ ServerIdle

\* The adapter function is called: every chain's attempt starts at once
\* (networks.map(...)).  The Covalent adapters first call requireApiKey().
Call ==
    /\ phase = "idle"
    /\ IF adapter \in {"covalentTx", "covalentBal"} /\ ~creds
       THEN /\ outcome' = Throw(ConfigError(adapter, 0))
            /\ phase' = "done"
            /\ task' = task
       ELSE /\ task' = [i \in 1..Len(networks) |-> NewTask]
            /\ phase' = "running"
            /\ outcome' = outcome
    /\ UNCHANGED <<adapter, creds, networks, settled, address, history, analysis, priceMap, serverVars, pureVars>>

\* Attempt i moves to t2; the join reacts in the same turn of the event loop.
StepFrame(i, t2) ==
    /\ task' = [task EXCEPT ![i] = t2]
    /\ settled' = IF t2.pc # "fetching" THEN Append(settled, i) ELSE settled
    /\ outcome' = IF outcome.kind # "pending" THEN outcome
                  ELSE AdapterOutcome(adapter, task', settled')
    /\ phase' = IF phase = "running" /\ outcome'.kind # "pending" THEN "done" ELSE phase
    /\ UNCHANGED <<adapter, creds, networks, address, history, analysis, priceMap, serverVars>>

Step(i, t2) == StepFrame(i, t2) /\ UNCHANGED pureVars

Fetching(i) == i \in 1..Len(task) /\ task[i].pc = "fetching"

\* coinbaseFetch / moralisFetch: requireCredentials() throws before any request.
NoCredentials(i) ==
    /\ Fetching(i)
    /\ adapter \in SettleAllAdapters
    /\ ~creds
    /\ Step(i, Reject(task[i], ConfigError(adapter, i)))

\* The provider answers a request with a non-success status.
RequestFails(i) ==
    /\ Fetching(i)
    /\ creds
    /\ \E status \in Statuses :
          Step(i, Reject([task[i] EXCEPT !.requests = @ + 1, !.fresh = FALSE],
                         UpstreamError(status, i)))

CoinbaseTxPage(i, batches, paginations) ==
    /\ Fetching(i)
    /\ adapter = "coinbaseTx"
    /\ creds
    /\ \E data \in batches, pg \in paginations :
          Step(i, CoinbaseTxPageStep(task[i], networks[i],
                    [data |-> data, next_cursor |-> pg[1], cursor |-> pg[2]]))

MoralisTxPage(i) ==
    /\ Fetching(i)
    /\ adapter = "moralisTx"
    /\ creds
    /\ \E data \in FanMoralisBatches, c \in FanCursors(task[i]) :
          Step(i, MoralisTxPageStep(task[i], networks[i], [data |-> data, cursor |-> c]))

CoinbaseBalFetch(i) ==
    /\ Fetching(i)
    /\ adapter = "coinbaseBal"
    /\ creds
    /\ \E data \in FanHoldingBatches : Step(i, CoinbaseBalStep(task[i], networks[i], data))

MoralisBalFetch(i) ==
    /\ Fetching(i)
    /\ adapter = "moralisBal"
    /\ creds
    /\ \E data \in OpaqueBatches : Step(i, MoralisBalStep(task[i], networks[i], data))

CovalentFetch(i) ==
    /\ Fetching(i)
    /\ adapter \in {"covalentTx", "covalentBal"}
    /\ creds
    /\ \E data \in OpaqueBatches : Step(i, CovalentStep(task[i], networks[i], data))

FanPaginations(t) == {<<c, Null>> : c \in FanCursors(t)}

NextFan ==
    \/ Call
    \/ \E i \in 1..MaxNetworks : NoCredentials(i)
    \/ \E i \in 1..MaxNetworks : RequestFails(i)
    \/ \E i \in 1..MaxNetworks :
          Fetching(i) /\ CoinbaseTxPage(i, FanTxBatches, FanPaginations(task[i]))
    \/ \E i \in 1..MaxNetworks : MoralisTxPage(i)
    \/ \E i \in 1..MaxNetworks : CoinbaseBalFetch(i)
    \/ \E i \in 1..MaxNetworks : MoralisBalFetch(i)
    \/ \E i \in 1..MaxNetworks : CovalentFetch(i)
    \/ GetWalletHistory
    \/ MoralisGetWalletHistory
    \/ FetchPrices
    \/ AnalyzeWallet

Spec == InitFan /\ [][NextFan]_vars

-----------------------------------------------------------------------------
(* Pagination of one Coinbase network fetch, against any provider *)

\* pagination.next_cursor and pagination.cursor of a response.
PagePaginations ==
    {<<Null, Null>>, <<"", "c1">>} \cup {<<c, Null>> : c \in Cursors} \cup {<<Null, c>> : c \in Cursors}

InitPage ==
    /\ phase = "running"
    /\ adapter = "coinbaseTx"
    /\ creds = TRUE
    /\ networks = <<"ethereum-mainnet">>
    /\ task = <<NewTask>>
    /\ settled = <<>>
    /\ outcome = Pending
    /\ address = QueriedAddr
    /\ history = NoHistory
    /\ analysis = NoAnalysis
    /\ priceMap = NoPrices
    /\ ServerIdle

NextPage ==
    \/ CoinbaseTxPage(1, FanTxBatches, PagePaginations)
    \/ RequestFails(1)

SpecPage == InitPage /\ [][NextPage]_vars

-----------------------------------------------------------------------------
(* Claims about the provider adapters *)

Settled(i) == task[i].pc # "fetching"
Tasks == 1..Len(task)
Failed == {i \in Tasks : task[i].pc = "rejected"}
Succeeded == {i \in Tasks : task[i].pc = "fulfilled"}

\* C1: if the provider answers every page of one network with a non-empty next
\* cursor that differs from the cursor just sent, fetchTransactionsForNetwork
\* sends at most 25 page requests and then returns what it collected.
C1_PageCeiling ==
    \A i \in Tasks :
        task[i].fresh =>
            /\ task[i].requests <= PAGE_SAFETY_LIMIT
            /\ task[i].pc # "rejected"

\* C2: in fetchCoinbaseTransactions, fetchCoinbaseBalances and
\* fetchMoralisTransactions, whenever at least one chain's attempt succeeded
\* (even with zero records) the call returns the concatenation of the records of
\* the chains that succeeded and does not throw.
C2_PartialSuccess ==
    (/\ adapter \in {"coinbaseTx", "coinbaseBal", "moralisTx"}
     /\ outcome.kind # "pending"
     /\ Succeeded # {})
        => (outcome.kind = "return" /\ outcome.value = FulfilledValues(task))

\* C3: when the attempt of every configured network failed,
\* fetchCoinbaseTransactions and fetchCoinbaseBalances throw one error, the
\* failure of the earliest failed network in configured order, and never return.
C3_TotalFailure ==
    (/\ adapter \in {"coinbaseTx", "coinbaseBal"}
     /\ Tasks # {}
     /\ Failed = Tasks)
        => (/\ outcome.kind = "throw"
            /\ outcome.error.origin = Min(Failed)
            /\ outcome.error = task[Min(Failed)].reason)

\* C3 witness: two networks failed, the second one first in time, and the call
\* threw the failure of the first configured network.
C3_Witness ==
    /\ adapter \in {"coinbaseTx", "coinbaseBal"}
    /\ Len(task) = 2
    /\ Failed = Tasks
    /\ settled = <<2, 1>>
    /\ task[1].reason.message # task[2].reason.message
    /\ outcome.kind = "throw"
    /\ outcome.error.origin = 1

\* C4: in every adapter's fan-out the outcome is produced only after every
\* chain's attempt has settled, and the records of a chain that succeeded are
\* never discarded because another chain failed.
C4_SettleAllJoin ==
    outcome.kind # "pending" =>
        /\ \A i \in Tasks : Settled(i)
        /\ \A i \in Succeeded :
              \A k \in 1..Len(task[i].items) :
                  outcome.kind = "return" /\ task[i].items[k] \in Range(outcome.value)

\* C5: no two transactions of the list getWalletHistory returns have the same
\* (canonical chain, hash) pair.
C5_DedupInvariant ==
    history.kind = "return" =>
        \A i, j \in 1..Len(history.history) :
            i # j => <<history.history[i].chain, history.history[i].hash>>
                       # <<history.history[j].chain, history.history[j].hash>>

------------------------------------------------------------------------\* The caller of the adapter has finished, with this result.
CallerDone == phase \in {"normalized", "analyzed"}
CallerResult == IF adapter = "coinbaseBal" THEN analysis ELSE history

DedicatedMessage(a) ==
    IF a \in {"coinbaseTx", "coinbaseBal"}
    THEN "Coinbase API credentials are missing or invalid"
    ELSE "Moralis API key is missing or invalid"

\* C17: without credentials no request is sent to the provider, and
\* analyzeWallet and getWalletHistory, in the Coinbase and in the Moralis
\* variant, fail with the provider's credentials message.
C17_ConfigurationError ==
    ~creds /\ adapter \in {"coinbaseTx", "coinbaseBal", "moralisTx"} =>
        /\ \A i \in 1..Len(task) : task[i].requests = 0
        /\ CallerDone =>
              /\ CallerResult.kind = "throw"
              /\ CallerResult.error.message = DedicatedMessage(adapter)

\* Every configured chain answered successfully and listed nothing.
AllEmpty ==
    /\ Len(task) > 0
    /\ \A i \in 1..Len(task) : task[i].pc = "fulfilled" /\ task[i].items = <<>>

\* C18: when every configured chain answers successfully with no records, the
\* analysis returns no tokens, a net worth of 0 and the one insight 'No balance
\* detected', and the history, in the Coinbase and in the Moralis variant,
\* returns the empty list; neither throws.
C18_EmptyButValid ==
    CallerDone /\ AllEmpty /\ adapter \in {"coinbaseTx", "coinbaseBal", "moralisTx"} =>
        IF adapter = "coinbaseBal"
        THEN /\ analysis.kind = "return"
             /\ analysis.tokens = <<>>
             /\ analysis.summary.netWorth = 0
             /\ analysis.insights = <<Insight("No balance detected", Null, "neutral")>>
        ELSE /\ history.kind = "return"
             /\ history.history = <<>>

\* C19: what the normalization returns does not depend on when it runs: the
\* history built from the fetched transactions is the same at every wall-clock
\* time, also for transactions that carry no timestamp, and the analysis is a
\* function of the fetched balances and the price map.
C19_Determinism ==
    /\ phase = "normalized" /\ adapter = "coinbaseTx"
          => \A now \in Nows : history = getWalletHistory(outcome, address, now)
    /\ phase = "analyzed" /\ adapter = "coinbaseBal"
          => analysis = analyzeWallet(outcome, priceMap)

-----
(* normalizeTransaction on one raw transaction: who sent, who received *)

Addresses == {<<"0", "x", "a">>, <<"0", "X", "A">>, <<"0", "x", "b">>}
PartyAddrs == {NullAddr, <<" ">>, <<"0", "x", "A">>, <<"0", "x", "b">>}
TransferLists ==
    {<<>>,
     <<[from |-> <<"0", "x", "a">>, to |-> <<"0", "x", "b">>]>>,
     <<[from |-> NullAddr, to |-> <<" ">>], [from |-> <<"0", "x", "B">>, to |-> <<"0", "x", "A">>]>>}

DirTxs ==
    {[EmptyTx EXCEPT !.hash = "h1", !.from = f, !.to = t,
                     !.content_from = cf, !.content_to = ct, !.transfers = tr] :
        f \in PartyAddrs, t \in PartyAddrs,
        cf \in {NullAddr, <<"0", "x", "b">>}, ct \in {NullAddr, <<"0", "x", "a">>},
        tr \in TransferLists}

\* Adapter a has returned `items` from the one configured network.
Fetched(a, items, addr) ==
    /\ phase = "done"
    /\ adapter = a
    /\ creds = TRUE
    /\ networks = <<"ethereum-mainnet">>
    /\ task = <<Fulfil([NewTask EXCEPT !.requests = 1, !.safety = 1, !.fresh = FALSE], items)>>
    /\ settled = <<1>>
    /\ outcome = Return(items)
    /\ address = addr
    /\ history = NoHistory
    /\ analysis = NoAnalysis
    /\ priceMap = NoPrices
    /\ ServerIdle

InitDir == \E item \in DirTxs, addr \in Addresses :
              Fetched("coinbaseTx", <<[item EXCEPT !.network_id = "ethereum-mainnet"]>>, addr)

NextDir == GetWalletHistory

SpecDir == InitDir /\ [][NextDir]_vars

\* Two addresses are the same string up to the case of their letters.
EqIgnoreCase(a, b) ==
    /\ a # NullAddr
    /\ b # NullAddr
    /\ Len(a) = Len(b)
    /\ \A k \in 1..Len(a) : LowerChar(a[k]) = LowerChar(b[k])

RecipientMatches == EqIgnoreCase(extractAddress(outcome.value[1], "to"), address)
SenderMatches == EqIgnoreCase(extractAddress(outcome.value[1], "from"), address)
OneNormalized == history.kind = "return" /\ Len(outcome.value) = 1 /\ Len(history.history) = 1

\* C6 as stated: direction is in/out/internal; 'in' exactly when the resolved
\* recipient equals the queried address ignoring case, 'out' exactly when the
\* resolved sender does, 'internal' otherwise.
C6_DirectionAsStated ==
    OneNormalized =>
        LET d == history.history[1].direction IN
        /\ d \in {"in", "out", "internal"}
        /\ (d = "in") <=> RecipientMatches
        /\ (d = "out") <=> SenderMatches
        /\ (d = "internal") <=> (~RecipientMatches /\ ~SenderMatches)

\* C6 amended: 'in' exactly when the resolved recipient equals the queried
\* address ignoring case; 'out' exactly when the resolved sender does and the
\* recipient does not; 'internal' exactly when neither does.
C6_Direction ==
    OneNormalized =>
        LET d == history.history[1].direction IN
        /\ d \in {"in", "out", "internal"}
        /\ (d = "in") <=> RecipientMatches
        /\ (d = "out") <=> (SenderMatches /\ ~RecipientMatches)
        /\ (d = "internal") <=> (~RecipientMatches /\ ~SenderMatches)

\* C6 witness: a transfer of the queried address to itself, written in another
\* case than the query, was normalised to 'in'.
C6_Witness ==
    /\ OneNormalized
    /\ RecipientMatches
    /\ SenderMatches
    /\ extractAddress(outcome.value[1], "to") # address
    /\ history.history[1].direction = "in"

-----------------------------------------------------------------------------
(* getWalletHistory on long lists: order and cap *)

\* Timestamp of the k-th raw transaction under pattern p; NoNum: none given.
PatternTimestamp(p, k) ==
    CASE p = "rising" -> k
      [] p = "falling" -> 200 - k
      [] p = "mixed" -> (k * 7) % 11
      [] OTHER -> IF k % 5 = 0 THEN NoNum ELSE (k * 3) % 13

CapItems(n, p) ==
    [k \in 1..n |-> [EmptyTx EXCEPT !.hash = ToString(k), !.network_id = "ethereum-mainnet",
                                    !.block_timestamp = PatternTimestamp(p, k)]]

InitCap == \E n \in 0..MaxCapItems, p \in {"rising", "falling", "mixed", "gaps"} :
              Fetched("coinbaseTx", CapItems(n, p), QueriedAddr)

NextCap == GetWalletHistory

SpecCap == InitCap /\ [][NextCap]_vars

\* The hashes of the listed records.
Listed(h) == {h[k].hash : k \in 1..Len(h)}

\* C7: the list getWalletHistory returns is ordered by non-increasing
\* timestamp and holds at most 100 records; when more than 100 were normalised
\* it holds exactly 100 of them and none that was left out is newer than one
\* that was kept.
C7_OrderAndCap ==
    history.kind = "return" =>
        LET h == history.history
            n == Len(outcome.value)
        IN /\ \A i, j \in 1..Len(h) : i < j => h[i].timestamp >= h[j].timestamp
           /\ Len(h) <= HISTORY_LIMIT
           /\ Len(h) = IF n < HISTORY_LIMIT THEN n ELSE HISTORY_LIMIT
           /\ Cardinality(Listed(h)) = Len(h)
           /\ \E now \in Nows : \A k \in 1..n :
                 LET raw == outcome.value[k]
                     ts == IF raw.block_timestamp = NoNum THEN now ELSE raw.block_timestamp
                 IN IF raw.hash \in Listed(h)
                    THEN \E i \in 1..Len(h) : h[i].hash = raw.hash /\ h[i].timestamp = ts
                    ELSE \A i \in 1..Len(h) : h[i].timestamp >= ts

\* C7 witness: more than 100 transactions were normalised, in rising order of
\* time, and the list holds the 100 newest, newest first.
C7_Witness ==
    /\ history.kind = "return"
    /\ Len(outcome.value) > HISTORY_LIMIT
    /\ outcome.value[1].block_timestamp < outcome.value[2].block_timestamp
    /\ Len(history.history) = HISTORY_LIMIT
    /\ history.history[1].timestamp > history.history[HISTORY_LIMIT].timestamp
    /\ history.history[1].hash = ToString(Len(outcome.value))

-----------------------------------------------------------------------------
(* analyzeWallet on fetched balances *)

\* The balances a wallet may hold; values in units of 0.00005 USD, amounts in
\* units of 0.00005 token (one token is 20000).
HoldingList ==
    <<Holding("USDT", Null, "0xa", 3, 1, {}, <<>>),
      Holding("ETH", Null, Null, 20000, 120000000, {"native"}, <<20000000>>),
      Holding("LINK", Null, "0xb", 3, 1, {"verified"}, <<1>>),
      Holding(" ", "usdc", "0xC", 80000000, 80000000, {}, <<>>),
      Holding("DUST", Null, "0xb", NoNum, 1, {}, <<>>),
      Holding("dai", Null, "0xb", NoNum, 2, {}, <<0 - 1>>),
      Holding("WBTC", Null, "0xb", NoNum, 3, {}, <<2>>),
      Holding("SCAM", Null, "0xb", 20000, 1000, {"scam"}, <<>>),
      Holding("BIG", Null, "0xb", NoNum, 200000001, {"unverified"}, <<>>),
      Holding("EDGE", Null, "0xb", NoNum, 200000000, {"unverified"}, <<>>),
      Holding("RARE", Null, "0xa", 3, 15003, {"unverified"}, <<>>),
      Holding("UNIT", Null, "0xb", 3, 15000, {"unverified"}, <<>>),
      Holding("NOFLAG", Null, "0xb", 3, 15003, {}, <<>>),
      Holding("GAS", Null, "0xb", 3, 15003, {"native", "unverified"}, <<>>),
      Holding("PEPE", Null, "0xC", 4, NoNum, {"unverified"}, <<>>),
      Holding("TINY", Null, "0xb", 2, 15000, {"unverified"}, <<>>),
      Holding("EPS", Null, "0xb", 2, 2, {}, <<>>),
      Holding("SUB", Null, "0xb", 2, 1, {}, <<>>),
      Holding("AAVE", Null, "0xb", NoNum, 9, {}, <<>>),
      Holding("UNI", Null, "0xb", NoNum, 9, {}, <<>>),
      [Holding(Null, Null, Null, 10, NoNum, {}, <<5>>) EXCEPT !.network_id = "base-mainnet"]>>

\* The members of HoldingList at the indices of S, in the order of the list.
Pick(S) ==
    [k \in 1..Cardinality(S) |->
        HoldingList[CHOOSE i \in S : Cardinality({j \in S : j <= i}) = k]]

InitTok == \E S \in SUBSET (1..Len(HoldingList)) :
              /\ Cardinality(S) <= MaxHoldings
              /\ Fetched("coinbaseBal", Pick(S), QueriedAddr)

NextTok == FetchPrices \/ AnalyzeWallet

SpecTok == InitTok /\ [][NextTok]_vars

-----------------------------------------------------------------------------
(* SpecBuild: buildTokens and the summary as functions of the balances and of
   a price map, whatever put the prices there *)

PriceMaps ==
    {NoPrices,
     NativeKey("ethereum") :> 5000,
     TokenKey("ethereum", "0xa") :> 5001 @@ TokenKey("ethereum", "0xc") :> 2}

InitBuild == \E S \in SUBSET (1..Len(HoldingList)) : \E prices \in PriceMaps :
                /\ Cardinality(S) <= MaxHoldings
                /\ phase = "priced"
                /\ adapter = "coinbaseBal"
                /\ creds = TRUE
                /\ networks = <<"ethereum-mainnet">>
                /\ task = <<Fulfil([NewTask EXCEPT !.requests = 1, !.safety = 1, !.fresh = FALSE], Pick(S))>>
                /\ settled = <<1>>
                /\ outcome = Return(Pick(S))
                /\ address = QueriedAddr
                /\ history = NoHistory
                /\ analysis = NoAnalysis
                /\ priceMap = prices
                /\ ServerIdle

NextBuild == AnalyzeWallet

SpecBuild == InitBuild /\ [][NextBuild]_vars

\* The symbol buildTokens gives the token of a holding.
HoldingSymbol(h) ==
    IF normalizeSymbol(h.symbol) # Null THEN normalizeSymbol(h.symbol)
    ELSE IF normalizeSymbol(h.asset_id) # Null THEN normalizeSymbol(h.asset_id)
    ELSE UpperStr(analyzerNormalizeChain(h.network_id))

Built == phase = "analyzed" /\ analysis.kind = "return"

\* The tokens of the analysis that come from holding h.
TokensOf(h) == {i \in 1..Len(analysis.tokens) : analysis.tokens[i].symbol = HoldingSymbol(h)}

AmountAboveEpsilon(h) == h.amount # NoNum /\ h.amount > VALUE_EPSILON
NonNative(h) == h.address # Null /\ h.address # "" /\ ~h.native_type
FlaggedUnverified(h) == h.is_verified = "false"

\* Suppression as C11 words it, the unit price being value / amount of any
\* holding that has an amount.
SuppressedAsStated(h) ==
    LET value == effectiveValueUsd(h, priceMap) IN
    \/ ~AmountAboveEpsilon(h) /\ value < VALUE_EPSILON
    \/ h.is_scam
    \/ /\ NonNative(h)
       /\ FlaggedUnverified(h)
       /\ \/ value > MAX_UNVERIFIED_TOKEN_VALUE
          \/ h.amount # NoNum /\ h.amount > 0 /\ value > MAX_UNIT_PRICE_FOR_UNVERIFIED * h.amount

\* Suppression with the unit price taken only of an amount above epsilon.
Suppressed(h) ==
    LET value == effectiveValueUsd(h, priceMap) IN
    \/ ~AmountAboveEpsilon(h) /\ value < VALUE_EPSILON
    \/ h.is_scam
    \/ /\ NonNative(h)
       /\ FlaggedUnverified(h)
       /\ \/ value > MAX_UNVERIFIED_TOKEN_VALUE
          \/ AmountAboveEpsilon(h) /\ value > MAX_UNIT_PRICE_FOR_UNVERIFIED * h.amount

\* C11 as stated: buildTokens drops a balance exactly when (a) its amount is
\* not above epsilon and its USD value is below epsilon, or (b) it is flagged
\* as scam, or (c) it is non-native, flagged unverified and worth more than
\* 10,000 USD or more than 5,000 USD a unit; every other balance yields
\* exactly one token.
C11_SuppressionAsStated ==
    Built =>
        /\ \A k \in 1..Len(outcome.value) :
              Cardinality(TokensOf(outcome.value[k])) =
                  IF SuppressedAsStated(outcome.value[k]) THEN 0 ELSE 1
        /\ Len(analysis.tokens) =
              Cardinality({k \in 1..Len(outcome.value) : ~SuppressedAsStated(outcome.value[k])})

\* C11, amended: the same, where the unit price counts only for a balance
\* whose amount is above epsilon (of a smaller amount no unit price is taken).
C11_Suppression ==
    Built =>
        /\ \A k \in 1..Len(outcome.value) :
              Cardinality(TokensOf(outcome.value[k])) =
                  IF Suppressed(outcome.value[k]) THEN 0 ELSE 1
        /\ Len(analysis.tokens) =
              Cardinality({k \in 1..Len(outcome.value) : ~Suppressed(outcome.value[k])})

\* C11 witness: of three non-native balances worth more than 5,000 USD a unit,
\* the one flagged unverified was dropped, the one without a verification flag
\* and the flagged one with an amount of epsilon each gave a token.
C11_Witness ==
    /\ Built
    /\ Len(outcome.value) = 3
    /\ \E i, j, k \in 1..3 :
          /\ outcome.value[i].symbol = "RARE" /\ TokensOf(outcome.value[i]) = {}
          /\ outcome.value[j].symbol = "NOFLAG" /\ TokensOf(outcome.value[j]) # {}
          /\ outcome.value[k].symbol = "TINY" /\ TokensOf(outcome.value[k]) # {}

C24_PriorValue ==
    Built =>
        \A k \in 1..Len(outcome.value) :
            LET h == outcome.value[k]
            IN \A i \in TokensOf(h) :
                  LET prior == analysis.tokens[i].valueUsd - h.change_usd
                  IN analysis.tokens[i].valueUsd24h =
                         IF h.has_change /\ prior >= 0 THEN prior ELSE NoNum

\* The chain of a balance in the canonical naming of the price oracle.
OwnChain(h) == canonicalChain(h.network_id)

\* C13: once the prices are fetched, the price key of every balance names the
\* balance's own canonical chain, so that two balances on different chains
\* never have the same key, and every price in the map is stored under the key
\* of some balance.
C13_PerChainKeys ==
    phase \in {"priced", "analyzed"} =>
        /\ \A k \in 1..Len(outcome.value) :
              buildPriceKey(outcome.value[k])[2] = OwnChain(outcome.value[k])
        /\ \A i, j \in 1..Len(outcome.value) :
              OwnChain(outcome.value[i]) # OwnChain(outcome.value[j])
                  => buildPriceKey(outcome.value[i]) # buildPriceKey(outcome.value[j])
        /\ \A key \in DOMAIN priceMap :
              \E k \in 1..Len(outcome.value) : buildPriceKey(outcome.value[k]) = key

\* The place of an insight in the rule list, by its title.
InsightRank(insight) ==
    CASE insight.title \in {"Stablecoin reserves are strong", "Low stablecoin coverage"} -> 1
      [] insight.title = "dominates exposure" -> 2
      [] insight.title \in {"Flat daily performance", "Positive momentum", "Net worth dipped"} -> 3
      [] insight.title = "Conservative stance working" -> 4
      [] OTHER -> 0

\* C20: with a net worth below epsilon the insights are the single 'No balance
\* detected'; otherwise they come in the order stablecoin commentary,
\* concentration warning, momentum commentary, conservative note, each at most
\* once, with exactly one momentum insight, and the concentration warning is
\* there exactly when the first token's allocationPct is at least 45.
C20_InsightRules ==
    Built =>
        LET insights == analysis.insights
            n == Len(insights)
            tokens == analysis.tokens
        IN IF analysis.summary.netWorth < VALUE_EPSILON
           THEN insights = <<Insight("No balance detected", Null, "neutral")>>
           ELSE /\ \A k \in 1..n : InsightRank(insights[k]) > 0
                /\ \A j, k \in 1..n : j < k => InsightRank(insights[j]) < InsightRank(insights[k])
                /\ Cardinality({k \in 1..n : InsightRank(insights[k]) = 3}) = 1
                /\ (\E k \in 1..n : InsightRank(insights[k]) = 2)
                      <=> /\ Len(tokens) > 0
                          /\ AtLeastRatio(tokens[1].allocationPct.num,
                                          tokens[1].allocationPct.den, 45, 100)

\* C20 witness: an analysis gave all four kinds of insight, in a wallet whose
\* largest token holds 60%.
C20_Witness ==
    /\ Built
    /\ Len(analysis.insights) = 4
    /\ analysis.tokens[1].allocationPct = Pct(120000000, 200000000)

\* The concentration warning was given for a largest token of exactly 45%.
C20_AtBoundary ==
    /\ Built
    /\ Len(analysis.tokens) = 3
    /\ analysis.tokens[1].allocationPct = Pct(9, 20)
    /\ \E k \in 1..Len(analysis.insights) : InsightRank(analysis.insights[k]) = 2

\* The analysis holds an insight with this title.
HasInsight(title) == \E k \in 1..Len(analysis.insights) : analysis.insights[k].title = title

\* C27: 'Conservative stance working' is among the insights exactly when the
\* risk level is Conservative and the momentum insight of the same list is
\* 'Positive momentum'; it never comes with 'Flat daily performance' or 'Net
\* worth dipped'.
C27_ReinforcingNote ==
    Built /\ analysis.summary.netWorth >= VALUE_EPSILON =>
        /\ HasInsight("Conservative stance working")
              <=> /\ analysis.summary.riskLevel = "Conservative"
                  /\ HasInsight("Positive momentum")
        /\ HasInsight("Conservative stance working")
              => /\ ~HasInsight("Flat daily performance")
                 /\ ~HasInsight("Net worth dipped")

\* C28: the analysis holds 'Stablecoin reserves are strong' if and only if its
\* risk level is Conservative, and holds 'Low stablecoin coverage' only if its
\* risk level is Aggressive.
C28_RiskAndInsightAgree ==
    Built =>
        /\ HasInsight("Stablecoin reserves are strong")
              <=> analysis.summary.riskLevel = "Conservative"
        /\ HasInsight("Low stablecoin coverage")
              => analysis.summary.riskLevel = "Aggressive"

\* C28 witness: a wallet of DAI 2 and WBTC 3, stable share exactly 40%, was
\* analyzed as Conservative with strong reserves.
C28_Witness ==
    /\ Built
    /\ Len(analysis.tokens) = 2
    /\ analysis.summary.netWorth = 5
    /\ analysis.summary.riskLevel = "Conservative"
    /\ HasInsight("Stablecoin reserves are strong")

\* A wallet without stable assets was analyzed as Aggressive with low coverage.
C28_LowCoverage ==
    /\ Built
    /\ analysis.summary.riskLevel = "Aggressive"
    /\ HasInsight("Low stablecoin coverage")

RECURSIVE SumTo(_, _)
SumTo(f, n) == IF n = 0 THEN 0 ELSE f[n] + SumTo(f, n - 1)

Analyzed == analysis.kind = "return" /\ phase = "analyzed"
ReturnedTotal == SumTo([k \in 1..Len(analysis.tokens) |-> analysis.tokens[k].valueUsd],
                       Len(analysis.tokens))

\* C8: in the token list buildTokens returns, when the total value exceeds
\* epsilon every allocationPct is valueUsd / total * 100 and the allocations
\* sum to 100; when the total is at most epsilon every allocationPct is 0;
\* and the list is in non-increasing order of valueUsd.
C8_Allocation ==
    Analyzed =>
        LET tokens == analysis.tokens
            n == Len(tokens)
        IN /\ ReturnedTotal > VALUE_EPSILON =>
                 /\ \A k \in 1..n : tokens[k].allocationPct = Pct(tokens[k].valueUsd, ReturnedTotal)
                 /\ SumTo([k \in 1..n |-> tokens[k].allocationPct.num], n) = ReturnedTotal
           /\ ReturnedTotal <= VALUE_EPSILON =>
                 \A k \in 1..n : tokens[k].allocationPct.num = 0
           /\ \A i, j \in 1..n : i < j => tokens[i].valueUsd >= tokens[j].valueUsd

\* C8 witness: balances fetched smallest first came back as several tokens
\* worth more than epsilon together, the most valuable first, with a share each.
C8_Witness ==
    /\ Analyzed
    /\ Len(analysis.tokens) >= 2
    /\ ReturnedTotal > VALUE_EPSILON
    /\ outcome.value[1].symbol = "USDT"
    /\ analysis.tokens[1].symbol = "ETH"
    /\ analysis.tokens[1].allocationPct.num > 0
    /\ analysis.tokens[Len(analysis.tokens)].symbol = "USDT"

Known24h(token) == token.valueUsd24h # NoNum

\* C10: netWorth is the sum of valueUsd over the returned tokens;
\* netWorthChange is the sum of valueUsd - valueUsd24h over the tokens whose
\* value 24h ago is known; netWorthChangePct is 0 whenever the net worth of
\* 24h ago (the known 24h values plus the current values of the others) is not
\* above epsilon.
C10_NetWorthChange ==
    Analyzed =>
        LET tokens == analysis.tokens
            n == Len(tokens)
            change == [k \in 1..n |-> IF Known24h(tokens[k])
                                      THEN tokens[k].valueUsd - tokens[k].valueUsd24h ELSE 0]
            ago == [k \in 1..n |-> IF Known24h(tokens[k])
                                   THEN tokens[k].valueUsd24h ELSE tokens[k].valueUsd]
        IN /\ analysis.summary.netWorth = ReturnedTotal
           /\ analysis.summary.netWorthChange = SumTo(change, n)
           /\ SumTo(ago, n) <= VALUE_EPSILON => analysis.summary.netWorthChangePct.num = 0
           /\ SumTo(ago, n) > VALUE_EPSILON =>
                 analysis.summary.netWorthChangePct = Pct(SumTo(change, n), SumTo(ago, n))

\* C10 witness: a wallet with a token of known and a token of unknown value
\* 24h ago was analysed, and its net worth changed.
C10_Witness ==
    /\ Analyzed
    /\ \E i, j \in 1..Len(analysis.tokens) :
          /\ Known24h(analysis.tokens[i])
          /\ analysis.tokens[i].valueUsd # analysis.tokens[i].valueUsd24h
          /\ ~Known24h(analysis.tokens[j])
          /\ analysis.tokens[j].valueUsd > 0
    /\ analysis.summary.netWorthChange # 0

\* C10 witness of the guard: the wallet was worth no more than epsilon 24h
\* ago, its value changed, and the percentage is 0.
C10_GuardReached ==
    /\ Analyzed
    /\ analysis.summary.netWorthChange > 0
    /\ analysis.summary.netWorth - analysis.summary.netWorthChange <= VALUE_EPSILON
    /\ analysis.summary.netWorthChangePct.num = 0

-----------------------------------------------------------------------------
(* computeRisk on token lists of a given total *)

RiskTotals == {0, 1, 2, 3, 20, 200000000}
ShareStep(total) == IF total >= 20 THEN total \div 20 ELSE 1
StableStarts(total) ==
    {x \in {k * ShareStep(total) + e : k \in 0..20, e \in {0 - 1, 0, 1}} : x >= 0 /\ x <= total}

RiskTokens(stableSymbol, total, stableValue) ==
    <<[NullToken EXCEPT !.symbol = "ETH", !.protocol = "eth", !.valueUsd = total - stableValue],
      [NullToken EXCEPT !.symbol = stableSymbol, !.protocol = "eth", !.valueUsd = stableValue]>>

InitRisk ==
    /\ phase = "tokens"
    /\ adapter = "coinbaseBal"
    /\ creds = TRUE
    /\ networks = <<>>
    /\ task = <<>>
    /\ settled = <<>>
    /\ outcome = Pending
    /\ address = QueriedAddr
    /\ history = NoHistory
    /\ priceMap = NoPrices
    /\ ServerIdle
    /\ \E sym \in {"USDC", "DAI"}, total \in RiskTotals :
          \E stableValue \in StableStarts(total) :
             analysis = [NoAnalysis EXCEPT !.kind = "tokens",
                                           !.tokens = RiskTokens(sym, total, stableValue)]

\* computeRisk(tokens)
ComputeRisk ==
    /\ phase = "tokens"
    /\ analysis' = [analysis EXCEPT !.summary.riskLevel = computeRisk(analysis.tokens)]
    /\ phase' = "classified"
    /\ UNCHANGED <<adapter, creds, networks, task, settled, outcome, address, history, priceMap, serverVars, pureVars>>

\* The wallet moves one step of value from ETH into the stable token, and
\* computeRisk is applied to the new list.
RaiseStableShare ==
    /\ phase = "classified"
    /\ LET d == ShareStep(analysis.tokens[1].valueUsd + analysis.tokens[2].valueUsd)
           tokens == [analysis.tokens EXCEPT ![1].valueUsd = @ - d, ![2].valueUsd = @ + d]
       IN /\ analysis.tokens[1].valueUsd >= d
          /\ analysis' = [analysis EXCEPT !.tokens = tokens,
                                          !.summary.riskLevel = computeRisk(tokens)]
    /\ UNCHANGED <<phase, adapter, creds, networks, task, settled, outcome, address, history, priceMap, serverVars, pureVars>>

NextRisk == ComputeRisk \/ RaiseStableShare

SpecRisk == InitRisk /\ [][NextRisk]_vars

Classified == phase = "classified"
RiskTotal == analysis.tokens[1].valueUsd + analysis.tokens[2].valueUsd
RiskStable == analysis.tokens[2].valueUsd
RiskRank(level) == CASE level = "Aggressive" -> 0 [] level = "Moderate" -> 1 [] OTHER -> 2
BoundaryExample ==
    /\ analysis.tokens[1].symbol = "ETH" /\ analysis.tokens[1].valueUsd = 120000000
    /\ analysis.tokens[2].symbol = "USDC" /\ analysis.tokens[2].valueUsd = 80000000

C9_Thresholds ==
    Classified =>
        LET level == analysis.summary.riskLevel IN
        /\ level \in {"Conservative", "Moderate", "Aggressive"}
        /\ IF RiskTotal < VALUE_EPSILON THEN level = "Moderate"
           ELSE /\ (level = "Conservative") <=> (RiskStable * 5 >= RiskTotal * 2)
                /\ (level = "Moderate") <=> (RiskStable * 5 < RiskTotal * 2
                                              /\ RiskStable * 20 >= RiskTotal * 3)
                /\ (level = "Aggressive") <=> (RiskStable * 5 < RiskTotal * 2
                                                /\ RiskStable * 20 < RiskTotal * 3)
        /\ BoundaryExample => level = "Conservative"

C9_Monotone ==
    (Classified /\ Classified')
        => RiskRank(analysis'.summary.riskLevel) >= RiskRank(analysis.summary.riskLevel)

\* C9: computeRisk returns Moderate when the total is below epsilon; otherwise
\* Conservative exactly when the stable symbols hold at least 40% of the total
\* (ETH 6000 with USDC 4000 included), Moderate exactly when they hold at least
\* 15% and less than 40%, Aggressive otherwise; and a step that raises the
\* stable share at the same total never moves the level to a less conservative one.
C9_RiskClassification == []C9_Thresholds /\ [][C9_Monotone]_vars

\* C9 witness: ETH 6000 USD with USDC 4000 USD was classified Conservative.
C9_Witness == Classified /\ BoundaryExample /\ analysis.summary.riskLevel = "Conservative"

-----------------------------------------------------------------------------
(* SpecRoute: the GET handlers of the API routes, served by one Node process:
   the rate limiter's buckets, the response caches, and requests whose
   provider call is in flight *)

\* analyze/route.ts line 5 (part_010 line 5)
ONE_HOUR_MS == 60 * 60 * 1000

\* rate-limit.ts lines 4-7, RATE_LIMIT_WINDOW_MS unset
DEFAULT_WINDOW_MS == 60000

\* rate-limit.ts line 3, with RATE_LIMIT_MAX_REQUESTS=2 in the environment
DEFAULT_LIMIT == 2

\* Requests a run serves.
MaxRequests == 3

\* The handlers: analyze/route.ts, history/route.ts, and part_010, the history
\* handler with a response cache.  A deployment has one history handler.
\* part_011, the history handler that resolves names ("historyResolving"),
\* has a response cache too.
Routes == {"analyze", "history", "historyCached"}
CachedRoutes == {"analyze", "historyCached", "historyResolving"}

\* The scope the handler passes to applyRateLimit.
ScopeOf(route) == IF route = "analyze" THEN "analyze" ELSE "history"

\* The ?address= parameter; Null when it is missing.
WalletAddrs == {"0xa", "0xb"}

\* Values of Date.now(): the start, one window later, one hour later.
Instants == {0, DEFAULT_WINDOW_MS, ONE_HOUR_MS}

\* Map.prototype.set and Map.prototype.delete
MapSet(map, key, value) == [k \in DOMAIN map \cup {key} |-> IF k = key THEN value ELSE map[k]]
MapDelete(map, key) ==
    IF DOMAIN map \subseteq {key} THEN EmptyMap ELSE [k \in DOMAIN map \ {key} |-> map[k]]

\* rate-limit.ts line 44: `${scope}:${identifier}`
BucketKey(scope, identifier) == <<scope, identifier>>

\* A plausible slip: a bucket still counts at the instant it expires.
bucketExpiredAfter(bucket, now) == bucket.expiresAt < now

\* rate-limit.ts line 49: bucket.expiresAt <= now
bucketExpired(bucket, now) == bucket.expiresAt <= now

\* A plausible slip: every counted request moves the expiry of its bucket.
countRequestSliding(key, now) ==
    IF key \notin DOMAIN buckets \/ bucketExpired(buckets[key], now)
    THEN MapSet(buckets, key, [count |-> 1, expiresAt |-> now + DEFAULT_WINDOW_MS])
    ELSE MapSet(buckets, key, [count |-> buckets[key].count + 1,
                               expiresAt |-> now + DEFAULT_WINDOW_MS])

\* rate-limit.ts applyRateLimit lines 46-55: the buckets after the call
countRequest(key, now) ==
    IF key \notin DOMAIN buckets \/ bucketExpired(buckets[key], now)
    THEN MapSet(buckets, key, [count |-> 1, expiresAt |-> now + DEFAULT_WINDOW_MS])
    ELSE MapSet(buckets, key, [buckets[key] EXCEPT !.count = @ + 1])

\* rate-limit.ts applyRateLimit lines 56-69: what it returns, given the bucket
rateResult(current) ==
    IF current.count > DEFAULT_LIMIT
    THEN [ok |-> FALSE, remaining |-> 0]
    ELSE [ok |-> TRUE,
          remaining |-> IF DEFAULT_LIMIT - current.count > 0
                        THEN DEFAULT_LIMIT - current.count ELSE 0]

\* The body of a 200 response: the address and what the provider call of
\* request `by` returned for it.
Payload(addr, by) == [address |-> addr, by |-> by]
NoPayload == Payload(Null, 0)

\* A plausible slip: the hour is counted from the arrival of the request.
entryExpiryFromArrival(startedAt, now) == startedAt + ONE_HOUR_MS

\* analyze/route.ts lines 53-56: expiresAt: Date.now() + ONE_HOUR_MS
entryExpiry(startedAt, now) == now + ONE_HOUR_MS

\* A request: pc is "fetching" while the provider call is awaited, else "done";
\* startedAt is Date.now() in applyRateLimit and at the cache lookup, completedAt
\* is Date.now() where the response is stored in the cache.
Request(route, addr, pc, status, xcache, payload, remaining) ==
    [route |-> route, addr |-> addr, pc |-> pc, status |-> status, xcache |-> xcache,
     payload |-> payload, remaining |-> remaining, startedAt |-> clock, completedAt |-> clock]

Deployed(route) == \A k \in 1..Len(reqs) : reqs[k].route \in {"analyze", route}

\* GET up to the first await: lines 20-45 of analyze/route.ts, 5-22 of
\* history/route.ts, 21-46 of part_010.
Get(route, addr) ==
    LET key == BucketKey(ScopeOf(route), addr)
        counted == countRequest(key, clock)
        rate == rateResult(counted[key])
        cached == <<route, addr>> \in DOMAIN cache
        fresh == cached /\ cache[<<route, addr>>].expiresAt > clock
        Respond(request) == reqs' = Append(reqs, request)
    IN /\ Len(reqs) < MaxRequests
       /\ route = "analyze" \/ Deployed(route)
       /\ IF addr = Null
          THEN /\ Respond(Request(route, addr, "done", 400, Null, NoPayload, NoNum))
               /\ UNCHANGED <<buckets, cache>>
          ELSE /\ buckets' = counted
               /\ IF ~rate.ok
                  THEN /\ Respond(Request(route, addr, "done", 429, Null, NoPayload, rate.remaining))
                       /\ UNCHANGED cache
                  ELSE IF route \in CachedRoutes /\ fresh
                  THEN /\ Respond(Request(route, addr, "done", 200, "HIT",
                                          cache[<<route, addr>>].payload, rate.remaining))
                       /\ UNCHANGED cache
                  ELSE /\ Respond(Request(route, addr, "fetching", 0, Null, NoPayload, rate.remaining))
                       /\ cache' = IF route \in CachedRoutes /\ cached
                                   THEN MapDelete(cache, <<route, addr>>) ELSE cache
       /\ UNCHANGED <<clock, callVars, pureVars>>

\* GET from the await on, analyzeWallet or getWalletHistory having returned:
\* lines 45-62 of analyze/route.ts, 22-34 of history/route.ts, 46-64 of part_010.
Respond200(r) ==
    LET req == reqs[r]
        body == Payload(req.addr, r)
    IN /\ req.pc = "fetching"
       /\ cache' = IF req.route \in CachedRoutes
                   THEN MapSet(cache, <<req.route, req.addr>>,
                               [payload |-> body, expiresAt |-> entryExpiry(req.startedAt, clock)])
                   ELSE cache
       /\ reqs' = [reqs EXCEPT ![r] = [req EXCEPT !.pc = "done", !.status = 200,
                                                  !.xcache = IF req.route \in CachedRoutes
                                                             THEN "MISS" ELSE Null,
                                                  !.payload = body, !.completedAt = clock]]
       /\ UNCHANGED <<clock, buckets, callVars, pureVars>>

\* A plausible slip: the catch block stores the failed response.
Respond500Caching(r) ==
    /\ reqs[r].pc = "fetching"
    /\ reqs' = [reqs EXCEPT ![r] = [@ EXCEPT !.pc = "done", !.status = 500]]
    /\ cache' = MapSet(cache, <<reqs[r].route, reqs[r].addr>>,
                       [payload |-> Payload(reqs[r].addr, r), expiresAt |-> clock + ONE_HOUR_MS])
    /\ UNCHANGED <<clock, buckets, callVars, pureVars>>

\* GET from the await on, analyzeWallet or getWalletHistory having thrown: the
\* catch block.
Respond500(r) ==
    /\ reqs[r].pc = "fetching"
    /\ reqs' = [reqs EXCEPT ![r] = [@ EXCEPT !.pc = "done", !.status = 500]]
    /\ UNCHANGED <<clock, buckets, cache, callVars, pureVars>>

\* Time passes.
Tick == /\ \E now \in Instants : now > clock /\ clock' = now
        /\ UNCHANGED <<buckets, cache, reqs, callVars, pureVars>>

InitRoute ==
    /\ phase = "serving"
    /\ adapter = "none"
    /\ creds = TRUE
    /\ networks = <<>>
    /\ task = <<>>
    /\ settled = <<>>
    /\ outcome = Pending
    /\ address = NullAddr
    /\ history = NoHistory
    /\ analysis = NoAnalysis
    /\ priceMap = NoPrices
    /\ ServerIdle

Arrive == \E route \in Routes : \E addr \in WalletAddrs \cup {Null} : Get(route, addr)
Succeed == \E r \in 1..Len(reqs) : Respond200(r)
Fail == \E r \in 1..Len(reqs) : Respond500(r)

NextRoute == Arrive \/ Succeed \/ Fail \/ Tick

SpecRoute == InitRoute /\ [][NextRoute]_vars

\* Request k got past the rate limiter / has its 200 response from the provider.
Served(k) == reqs[k].status \notin {400, 429}
Fetched200(k) == reqs[k].pc = "done" /\ reqs[k].status = 200 /\ reqs[k].xcache # "HIT"
SameTarget(j, k) == reqs[j].route = reqs[k].route /\ reqs[j].addr = reqs[k].addr

\* C14: on the analyze and on the history endpoint, a request is answered from
\* the cache, without a provider call, when a response for its address was
\* stored less than one hour before it arrived, and only then; the expiry of an
\* entry is the time it was stored plus one hour; and no entry outlives a
\* lookup at or after its expiry.
C14_CacheFreshness ==
    /\ \A k \in 1..Len(reqs) :
          Served(k) =>
             /\ (\E j \in 1..Len(reqs) :
                    /\ j # k /\ SameTarget(j, k) /\ Fetched200(j)
                    /\ reqs[j].completedAt < reqs[k].startedAt
                    /\ reqs[k].startedAt < reqs[j].completedAt + ONE_HOUR_MS)
                => reqs[k].xcache = "HIT"
             /\ reqs[k].xcache = "HIT"
                => \E j \in 1..Len(reqs) :
                      /\ j # k /\ SameTarget(j, k) /\ Fetched200(j)
                      /\ reqs[j].completedAt <= reqs[k].startedAt
                      /\ reqs[k].startedAt < reqs[j].completedAt + ONE_HOUR_MS
                      /\ reqs[k].payload = reqs[j].payload
    /\ \A key \in DOMAIN cache :
          /\ \E j \in 1..Len(reqs) :
                Fetched200(j) /\ cache[key].expiresAt = reqs[j].completedAt + ONE_HOUR_MS
          /\ \A k \in 1..Len(reqs) :
                Served(k) /\ <<reqs[k].route, reqs[k].addr>> = key
                    => reqs[k].startedAt < cache[key].expiresAt

\* C15: on the cached handlers, whatever the interleaving of requests, every
\* request that misses fetches for itself, and every cache entry is the whole
\* response body of one request for that address whose provider call
\* succeeded, expiring one hour after that request completed.
C15_BenignRace ==
    /\ \A k \in 1..Len(reqs) :
          reqs[k].route \in CachedRoutes /\ Served(k) /\ reqs[k].xcache # "HIT"
              => \/ reqs[k].pc = "fetching"
                 \/ reqs[k].status = 500
                 \/ reqs[k].status = 200 /\ reqs[k].payload = Payload(reqs[k].addr, k)
    /\ \A key \in DOMAIN cache :
          LET entry == cache[key]
              k == entry.payload.by
          IN /\ key[1] \in CachedRoutes
             /\ k \in 1..Len(reqs)
             /\ <<reqs[k].route, reqs[k].addr>> = key
             /\ Fetched200(k)
             /\ entry.payload = reqs[k].payload
             /\ entry.payload.address = key[2]
             /\ entry.expiresAt = reqs[k].completedAt + ONE_HOUR_MS

\* C15 witness: two requests for one address were in flight together on a
\* cached handler; both fetched; the entry is the response of the one that
\* completed later, some time after it arrived.
C15_Witness ==
    \E j, k \in 1..Len(reqs) :
        /\ j # k /\ SameTarget(j, k) /\ reqs[k].route \in CachedRoutes
        /\ Fetched200(j) /\ Fetched200(k)
        /\ reqs[k].startedAt <= reqs[j].completedAt
        /\ reqs[j].completedAt < reqs[k].completedAt
        /\ reqs[k].startedAt < reqs[k].completedAt
        /\ <<reqs[k].route, reqs[k].addr>> \in DOMAIN cache
        /\ cache[<<reqs[k].route, reqs[k].addr>>].payload.by = k

\* Request k was counted by applyRateLimit; j and k were counted under one key.
Counted(k) == reqs[k].addr # Null
SameBucket(j, k) ==
    /\ Counted(j) /\ Counted(k)
    /\ ScopeOf(reqs[j].route) = ScopeOf(reqs[k].route)
    /\ reqs[j].addr = reqs[k].addr

\* The creation time of the bucket that counted request k: the arrival of the
\* first request of its key, or of the first that came windowMs or more after
\* the bucket before was created.
RECURSIVE WindowStart(_)
WindowStart(k) ==
    LET earlier == {j \in 1..(k - 1) : SameBucket(j, k)}
        last == CHOOSE j \in earlier : \A i \in earlier : i <= j
    IN IF earlier = {} THEN reqs[k].startedAt
       ELSE IF reqs[k].startedAt >= WindowStart(last) + DEFAULT_WINDOW_MS
            THEN reqs[k].startedAt
            ELSE WindowStart(last)

PositionInWindow(k) ==
    LET start == WindowStart(k)
    IN Cardinality({j \in 1..k : SameBucket(j, k) /\ WindowStart(j) = start})

\* C16: of the requests counted under one (scope, address) key between the
\* creation of a bucket and its expiry windowMs later, the first `limit` are
\* allowed and every further one is denied with status 429 and remaining 0;
\* requests under other keys do not count.
C16_RateLimit ==
    \A k \in 1..Len(reqs) :
        Counted(k) =>
            LET position == PositionInWindow(k)
            IN IF position <= DEFAULT_LIMIT
               THEN /\ reqs[k].status # 429
                    /\ reqs[k].remaining = DEFAULT_LIMIT - position
               ELSE /\ reqs[k].status = 429
                    /\ reqs[k].pc = "done"
                    /\ reqs[k].remaining = 0

\* C16 witness: three requests were counted by one bucket; the first two were
\* allowed, the third was denied with 429 and remaining 0.
C16_Witness ==
    \E i, j, k \in 1..Len(reqs) :
        /\ i < j /\ j < k
        /\ SameBucket(i, k) /\ SameBucket(j, k)
        /\ WindowStart(i) = WindowStart(k) /\ WindowStart(j) = WindowStart(k)
        /\ Served(i) /\ reqs[i].remaining = DEFAULT_LIMIT - 1
        /\ Served(j) /\ reqs[j].remaining = DEFAULT_LIMIT - 2
        /\ reqs[k].status = 429 /\ reqs[k].remaining = 0

-----------------------------------------------------------------------------
(* SpecChain: the three chain resolvers, each applied to one raw identifier *)

\* Raw chain identifiers: every key of the three alias tables, mixed-case
\* spellings, and identifiers no table knows.
RawChainIds ==
    DOMAIN ANALYZER_CHAIN_ALIAS_MAP \cup DOMAIN HISTORY_CHAIN_ALIAS_MAP
        \cup DOMAIN PRICING_CHAIN_ALIAS_MAP \cup {"ETH", "Base", "solana-mainnet"}

\* The key each module gives the identifier: normalizeChain of analyze-wallet.ts,
\* normalizeChain of wallet-history.ts, canonicalChain of coingecko.ts.
ChainKeys(id) ==
    [analytics |-> analyzerNormalizeChain(id),
     history |-> normalizeChain(id),
     pricing |-> canonicalChain(id)]

Components == {"analytics", "history", "pricing"}

InitChain ==
    /\ phase = "resolving"
    /\ adapter = "none"
    /\ creds = TRUE
    /\ networks = <<>>
    /\ task = <<>>
    /\ settled = <<>>
    /\ outcome = Pending
    /\ address = NullAddr
    /\ history = NoHistory
    /\ analysis = NoAnalysis
    /\ priceMap = NoPrices
    /\ clock = 0
    /\ buckets = EmptyMap
    /\ cache = EmptyMap
    /\ reqs = <<>>
    /\ given \in RawChainIds
    /\ returned = Null

\* Each module resolves the identifier.
ResolveChain ==
    /\ phase = "resolving"
    /\ returned' = ChainKeys(given)
    /\ phase' = "resolved"
    /\ UNCHANGED <<adapter, creds, networks, task, settled, outcome, address, history, analysis,
                   priceMap, serverVars, given>>

\* A key one module returned is given to the resolvers as an identifier.
ResolveKey ==
    /\ phase = "resolved"
    /\ \E c \in Components : given' = returned[c]
    /\ returned' = Null
    /\ phase' = "resolving"
    /\ UNCHANGED <<adapter, creds, networks, task, settled, outcome, address, history, analysis,
                   priceMap, serverVars>>

NextChain == ResolveChain \/ ResolveKey

SpecChain == InitChain /\ [][NextChain]_vars

\* C21: every raw chain identifier resolves to the same ChainKey in the
\* analytics, the history and the pricing module, and each module resolves
\* the key it returned to that same key.
C21_OneChainKey ==
    phase = "resolved" =>
        /\ returned.analytics = returned.history
        /\ returned.history = returned.pricing
        /\ ChainKeys(returned.analytics).analytics = returned.analytics
        /\ ChainKeys(returned.history).history = returned.history
        /\ ChainKeys(returned.pricing).pricing = returned.pricing

-----------------------------------------------------------------------------
(* SpecLookback: fetchCoinbaseTransactions on one network, in coinbase.ts and
   in part_001, which takes the lookback in days and filters by it *)

\* A block_timestamp Date.parse turns into NaN.
BadTime == 0 - 2

\* Date.parse(tx.block_timestamp) is a number.
Parseable(ts) == ts # NoNum /\ ts # BadTime

\* The instant of the call and the lookbacks requested, in days.
CallDay == 30
Lookbacks == {1, 14}

\* coinbase.ts lines 279-280, part_001 lines 218-220: since = now - days
sinceOf(now, days) == now - days

\* part_001 lines 317-326: the predicate of items.filter
keptSince(tx, sinceTs) ==
    \/ tx.block_timestamp = NoNum
    \/ tx.block_timestamp = BadTime
    \/ tx.block_timestamp >= sinceTs

\* part_001 fetchTransactionsForNetwork: the loop of lines 254-306 is that of
\* coinbase.ts; lines 308-326 filter what it collected.
part001TxPageStep(t, networkId, resp, sinceTs) ==
    LET t2 == CoinbaseTxPageStep(t, networkId, resp)
    IN IF t2.pc = "fulfilled"
       THEN [t2 EXCEPT !.items = SelectSeq(t2.items, LAMBDA tx : keptSince(tx, sinceTs))]
       ELSE t2

\* Transactions dated before, at and after the start of either window, one
\* without a timestamp and one with a timestamp that does not parse.
DatedTx(hash, ts) == [IdTx(hash, Null, NoNum, Null) EXCEPT !.block_timestamp = ts]
DatedTxs ==
    {DatedTx("h5", 5), DatedTx("h16", sinceOf(CallDay, 14)), DatedTx("h29", sinceOf(CallDay, 1)),
     DatedTx("h30", CallDay), DatedTx("h0", NoNum), DatedTx("hx", BadTime)}
DatedBatches == SeqsUpTo(DatedTxs, MaxBatch)

InitLookback ==
    /\ phase = "running"
    /\ adapter \in {"coinbaseTx", "part001Tx"}
    /\ creds = TRUE
    /\ networks = <<"ethereum-mainnet">>
    /\ task = <<NewTask>>
    /\ settled = <<>>
    /\ outcome = Pending
    /\ address = QueriedAddr
    /\ history = NoHistory
    /\ analysis = NoAnalysis
    /\ priceMap = NoPrices
    /\ clock = CallDay
    /\ buckets = EmptyMap
    /\ cache = EmptyMap
    /\ reqs = <<>>
    /\ given \in (IF adapter = "coinbaseTx" THEN {1} ELSE Lookbacks)
    /\ returned = Null

\* coinbase.ts: a page of the one network arrives.
CoinbaseDatedPage == CoinbaseTxPage(1, DatedBatches, FanPaginations(task[1]))

\* part_001: a page of the one network arrives; lines 225-244 join as
\* coinbase.ts lines 287-304 do.
Part001DatedPage ==
    /\ Fetching(1)
    /\ adapter = "part001Tx"
    /\ \E data \in DatedBatches, pg \in FanPaginations(task[1]) :
          LET t2 == part001TxPageStep(task[1], networks[1],
                                      [data |-> data, next_cursor |-> pg[1], cursor |-> pg[2]],
                                      sinceOf(clock, given))
          IN /\ task' = <<t2>>
             /\ settled' = IF t2.pc # "fetching" THEN <<1>> ELSE settled
             /\ outcome' = IF t2.pc = "fetching" THEN Pending ELSE CoinbaseJoin(task', settled')
             /\ phase' = IF t2.pc = "fetching" THEN phase ELSE "done"
    /\ UNCHANGED <<adapter, creds, networks, address, history, analysis, priceMap, serverVars,
                   pureVars>>

NextLookback == CoinbaseDatedPage \/ Part001DatedPage

SpecLookback == InitLookback /\ [][NextLookback]_vars

\* C22: no transaction fetchCoinbaseTransactions returns carries a parseable
\* timestamp older than the start of the lookback window, now minus the
\* lookback.
C22_LookbackFilter ==
    outcome.kind = "return" =>
        \A k \in 1..Len(outcome.value) :
            Parseable(outcome.value[k].block_timestamp)
                => outcome.value[k].block_timestamp >= sinceOf(clock, given)

-----------------------------------------------------------------------------
(* SpecResolve: resolveAddress of part_002 (lib/resolve-address), strings as
   sequences of characters *)

\* part_002 line 1: /^0x[a-fA-F0-9]{40}$/
HEX_DIGITS == 40
HexChars ==
    {"0", "1", "2", "3", "4", "5", "6", "7", "8", "9",
     "a", "b", "c", "d", "e", "f", "A", "B", "C", "D", "E", "F"}

\* A plausible slip: the digits are not counted.
hexAddressAnyLength(s) ==
    /\ Len(s) >= 2
    /\ s[1] = "0" /\ s[2] = "x"
    /\ \A i \in 3..Len(s) : s[i] \in HexChars

\* HEX_ADDRESS_REGEX.test(s)
HEX_ADDRESS_REGEX(s) ==
    /\ Len(s) = 2 + HEX_DIGITS
    /\ s[1] = "0" /\ s[2] = "x"
    /\ \A i \in 3..Len(s) : s[i] \in HexChars

\* String.prototype.trim and String.prototype.endsWith on character sequences.
RECURSIVE TrimStart(_)
TrimStart(s) == IF s # <<>> /\ Head(s) = " " THEN TrimStart(Tail(s)) ELSE s
RECURSIVE TrimEnd(_)
TrimEnd(s) == IF s # <<>> /\ s[Len(s)] = " " THEN TrimEnd(SubSeq(s, 1, Len(s) - 1)) ELSE s
TrimChars(s) == TrimEnd(TrimStart(s))
EndsWith(s, suffix) ==
    Len(s) >= Len(suffix) /\ SubSeq(s, Len(s) - Len(suffix) + 1, Len(s)) = suffix

DotEth == <<".", "e", "t", "h">>

\* What fetch and response.json() give resolveEnsName: the fetch throws, the
\* status is not ok, the body is not JSON, or the body's `address` (NullAddr
\* when it is null or missing).
LookupReply(kind, addr) == [kind |-> kind, address |-> addr]

\* part_002 resolveEnsName lines 10-38: the address or NullAddr for null.
resolveEnsName(reply) ==
    IF reply.kind # "ok" \/ reply.address = NullAddr THEN NullAddr
    ELSE LET candidate == TrimChars(reply.address)
         IN IF candidate # <<>> /\ HEX_ADDRESS_REGEX(candidate)
            THEN safeLowerCase(candidate)
            ELSE NullAddr

AddressResolutionError(message) == Err("AddressResolutionError", message, 0)

\* part_002 resolveAddress lines 41-48: TRUE iff the call reaches line 51.
looksUp(input) ==
    LET value == TrimChars(input)
    IN value # <<>> /\ ~HEX_ADDRESS_REGEX(value) /\ EndsWith(value, DotEth)

\* part_002 resolveAddress lines 40-59; reply is read only when the name is
\* looked up.
resolveAddress(input, reply) ==
    LET value == TrimChars(input)
        resolved == resolveEnsName(reply)
    IN IF value = <<>> THEN Throw(AddressResolutionError("Wallet is required"))
       ELSE IF HEX_ADDRESS_REGEX(value) THEN Return(safeLowerCase(value))
       ELSE IF EndsWith(value, DotEth)
            THEN IF resolved # NullAddr THEN Return(resolved)
                 ELSE Throw(AddressResolutionError(
                                "Unable to resolve ENS name to a wallet address"))
       ELSE Throw(AddressResolutionError(
                      "Address must be a 0x-prefixed hex string or ENS name"))

\* Inputs and lookup replies.
Rep(c, n) == [i \in 1..n |-> c]
Hex(c, n) == <<"0", "x">> \o Rep(c, n)
Padded(s) == <<" ">> \o s \o <<" ">>
EnsNames ==
    {<<"q">> \o DotEth, <<"q", "q">> \o DotEth, <<"a">> \o DotEth, DotEth,
     Hex("a", HEX_DIGITS) \o DotEth}
ResolveInputs ==
    {Hex("a", HEX_DIGITS), Hex("A", HEX_DIGITS), Hex("9", HEX_DIGITS),
     <<"0", "x">> \o Rep("a", HEX_DIGITS \div 2) \o Rep("B", HEX_DIGITS \div 2),
     Hex("a", HEX_DIGITS - 1), Hex("a", HEX_DIGITS + 1), Hex("g", HEX_DIGITS),
     <<"0", "X">> \o Rep("a", HEX_DIGITS), Rep("a", HEX_DIGITS),
     Padded(Hex("A", HEX_DIGITS)), <<>>, <<" ", " ">>,
     <<"q">>, <<"Q", ".", "E", "T", "H">>, <<"q">> \o DotEth \o <<"x">>,
     Hex("F", HEX_DIGITS), <<"0", "x">>}
        \cup EnsNames \cup {Padded(<<"q">> \o DotEth)}
LookupReplies ==
    {LookupReply("throws", NullAddr), LookupReply("not ok", Hex("b", HEX_DIGITS)),
     LookupReply("not json", NullAddr), LookupReply("ok", NullAddr), LookupReply("ok", <<>>),
     LookupReply("ok", Hex("b", HEX_DIGITS)), LookupReply("ok", Hex("B", HEX_DIGITS)),
     LookupReply("ok", Padded(Hex("B", HEX_DIGITS))), LookupReply("ok", Hex("b", HEX_DIGITS - 1)),
     LookupReply("ok", <<"0", "X">> \o Rep("b", HEX_DIGITS)), LookupReply("ok", <<"q">> \o DotEth)}

\* The call's result together with the replies of the lookups it made.
Resolved(result, lookups) == [result |-> result, lookups |-> lookups]

InitResolve ==
    /\ phase = "resolving"
    /\ adapter = "none"
    /\ creds = TRUE
    /\ networks = <<>>
    /\ task = <<>>
    /\ settled = <<>>
    /\ outcome = Pending
    /\ address = NullAddr
    /\ history = NoHistory
    /\ analysis = NoAnalysis
    /\ priceMap = NoPrices
    /\ clock = 0
    /\ buckets = EmptyMap
    /\ cache = EmptyMap
    /\ reqs = <<>>
    /\ given \in ResolveInputs
    /\ returned = Null

\* resolveAddress returns or throws before line 51.
ResolveWithoutLookup ==
    /\ phase = "resolving"
    /\ ~looksUp(given)
    /\ returned' = Resolved(resolveAddress(given, LookupReply("none", NullAddr)), <<>>)
    /\ phase' = "resolved"
    /\ UNCHANGED <<adapter, creds, networks, task, settled, outcome, address, history, analysis,
                   priceMap, serverVars, given>>

\* resolveAddress reaches line 51: the request to the name service is sent.
LookUpName ==
    /\ phase = "resolving"
    /\ looksUp(given)
    /\ phase' = "lookup"
    /\ UNCHANGED <<adapter, creds, networks, task, settled, outcome, address, history, analysis,
                   priceMap, serverVars, pureVars>>

\* The name service replies; resolveAddress returns or throws.
NameReplies ==
    /\ phase = "lookup"
    /\ \E reply \in LookupReplies :
          returned' = Resolved(resolveAddress(given, reply), <<reply>>)
    /\ phase' = "resolved"
    /\ UNCHANGED <<adapter, creds, networks, task, settled, outcome, address, history, analysis,
                   priceMap, serverVars, given>>

NextResolve == ResolveWithoutLookup \/ LookUpName \/ NameReplies

SpecResolve == InitResolve /\ [][NextResolve]_vars

\* s is 0x followed by 40 hex digits; s holds no upper-case hex digit.
ZeroXFortyHex(s) ==
    /\ Len(s) = 42
    /\ SubSeq(s, 1, 2) = <<"0", "x">>
    /\ \A i \in 3..42 : s[i] \in HexChars
LowerCased(s) == \A i \in 1..Len(s) : s[i] \notin {"A", "B", "C", "D", "E", "F", "X"}

\* The call threw an AddressResolutionError / returned address a.
ResolutionFails ==
    /\ returned.result.kind = "throw"
    /\ returned.result.error.class = "AddressResolutionError"
ResolvesTo(a) == returned.result.kind = "return" /\ returned.result.value = a

\* The lookup yielded a valid 0x address.
LookupValid(reply) ==
    reply.kind = "ok" /\ reply.address # NullAddr /\ ZeroXFortyHex(TrimChars(reply.address))

\* The claim's cases, on the string `value`.
ResolutionCases(value) ==
    /\ ZeroXFortyHex(value)
          => ResolvesTo(safeLowerCase(value)) /\ returned.lookups = <<>>
    /\ ~ZeroXFortyHex(value) /\ EndsWith(value, DotEth)
          => /\ Len(returned.lookups) = 1
             /\ IF LookupValid(returned.lookups[1])
                THEN ResolvesTo(safeLowerCase(TrimChars(returned.lookups[1].address)))
                ELSE ResolutionFails
    /\ ~ZeroXFortyHex(value) /\ ~EndsWith(value, DotEth)
          => ResolutionFails /\ returned.lookups = <<>>
    /\ returned.result.kind = "return"
          => /\ ZeroXFortyHex(returned.result.value)
             /\ LowerCased(returned.result.value)

\* C23 as stated: the cases are those of the input itself.
C23_ResolutionAsStated == phase = "resolved" => ResolutionCases(given)

\* C23: resolveAddress trims the input; for a trimmed input that is 0x and 40
\* hex digits it returns it lowercased without a lookup; for one ending in .eth
\* it returns the looked-up address, lowercased, when the lookup yields a
\* valid 0x address and fails with AddressResolutionError otherwise; every
\* other input, blank included, fails with AddressResolutionError without a
\* lookup; whatever it returns is a lowercase 0x address of 40 hex digits.
C23_Resolution == phase = "resolved" => ResolutionCases(TrimChars(given))

\* C23 witnesses: an upper-case hex address was returned lowercased without a
\* lookup; a name was resolved through a lookup; a lookup yielded no valid
\* address and the call failed.
C23_Witness ==
    /\ phase = "resolved"
    /\ given = Hex("A", HEX_DIGITS)
    /\ ResolvesTo(Hex("a", HEX_DIGITS))
    /\ returned.lookups = <<>>
C23_NameResolved ==
    /\ phase = "resolved"
    /\ given = <<"q">> \o DotEth
    /\ returned.lookups = <<LookupReply("ok", Hex("B", HEX_DIGITS))>>
    /\ ResolvesTo(Hex("b", HEX_DIGITS))
C23_LookupFailed ==
    /\ phase = "resolved"
    /\ given = <<"q">> \o DotEth
    /\ returned.lookups = <<LookupReply("ok", NullAddr)>>
    /\ ResolutionFails

-----------------------------------------------------------------------------
(* SpecCursor: the pagination of one Coinbase network fetch, with the last
   request and its response on record *)

\* A request with the cursor it carried and the response to it; seq counts the
\* requests of the fetch.
Exchange(seq, sent, next_cursor, cursor, data) ==
    [seq |-> seq, sent |-> sent, next_cursor |-> next_cursor, cursor |-> cursor, data |-> data]
NoExchange == Exchange(0, Null, Null, Null, <<>>)

InitCursor ==
    /\ phase = "running"
    /\ adapter = "coinbaseTx"
    /\ creds = TRUE
    /\ networks = <<"ethereum-mainnet">>
    /\ task = <<NewTask>>
    /\ settled = <<>>
    /\ outcome = Pending
    /\ address = QueriedAddr
    /\ history = NoHistory
    /\ analysis = NoAnalysis
    /\ priceMap = NoPrices
    /\ clock = 0
    /\ buckets = EmptyMap
    /\ cache = EmptyMap
    /\ reqs = <<>>
    /\ given = Null
    /\ returned = NoExchange

\* One iteration of the loop of fetchTransactionsForNetwork: the request goes
\* out with the current cursor and the provider answers it.
CursorPage ==
    /\ Fetching(1)
    /\ \E data \in FanTxBatches, pg \in PagePaginations :
          /\ StepFrame(1, CoinbaseTxPageStep(task[1], networks[1],
                            [data |-> data, next_cursor |-> pg[1], cursor |-> pg[2]]))
          /\ returned' = Exchange(task[1].requests + 1, task[1].cursor, pg[1], pg[2], data)
    /\ UNCHANGED given

NextCursor == CursorPage \/ RequestFails(1)

SpecCursor == InitCursor /\ [][NextCursor]_vars

\* The next cursor a response carries: pagination.next_cursor, or
\* pagination.cursor when there is no next_cursor; Null when it has neither.
NextCursorOf(ex) == IF ex.next_cursor # Null THEN ex.next_cursor ELSE ex.cursor

\* The response carries no next cursor, or the cursor its request was sent with.
LastPage(ex) == NextCursorOf(ex) \in {Null, ""} \/ NextCursorOf(ex) = ex.sent

\* Every record of the page is in the list, the first of its dedupe key
\* standing for the later ones.
PageIncluded(data, items) ==
    \A k \in 1..Len(data) :
        \E j \in 1..Len(items) :
            DedupeKey(items[j], networks[1]) = DedupeKey(data[k], networks[1])

\* No request follows a last page, and what the fetch returns holds the
\* records of the last page.
C25_StopsAtLastPage ==
    returned.seq > 0 =>
        /\ LastPage(returned) => task[1].pc # "fetching"
        /\ task[1].pc = "fulfilled"
              => outcome.kind = "return" /\ PageIncluded(returned.data, outcome.value)

\* A request does not carry the cursor of the request before it.
C25_CursorMoves ==
    returned.seq > 0 /\ returned'.seq > returned.seq => returned'.sent # returned.sent

\* C25: within one network fetch no request follows the first response that
\* carries no next cursor or the cursor sent with its request; no two
\* consecutive requests carry the same cursor; and the records of that last
\* page are part of the result.
C25_CursorStopRule == []C25_StopsAtLastPage /\ [][C25_CursorMoves]_vars

\* C25 witness: the second response repeated the cursor it was asked with, the
\* fetch sent no third request and returned that page's record too.
C25_Witness ==
    /\ returned.seq = 2
    /\ returned.sent = "c1"
    /\ NextCursorOf(returned) = "c1"
    /\ Len(returned.data) > 0
    /\ task[1].pc = "fulfilled"
    /\ task[1].requests = 2
    /\ PageIncluded(returned.data, outcome.value)

-----------------------------------------------------------------------------
(* SpecMoralisPage: fetchTransactionsForChain (Moralis) on one chain, against
   any provider that answers every request *)

\* data.cursor of a Moralis response.
MoralisCursors == Cursors \cup {Null, ""}

InitMoralisPage ==
    /\ phase = "running"
    /\ adapter = "moralisTx"
    /\ creds = TRUE
    /\ networks = <<"eth">>
    /\ task = <<NewTask>>
    /\ settled = <<>>
    /\ outcome = Pending
    /\ address = QueriedAddr
    /\ history = NoHistory
    /\ analysis = NoAnalysis
    /\ priceMap = NoPrices
    /\ ServerIdle

\* One iteration of the loop of fetchTransactionsForChain.  The count of
\* requests, which the program does not keep, stops at MaxCountedPages.
MoralisPageArrives ==
    /\ Fetching(1)
    /\ \E data \in FanMoralisBatches, c \in MoralisCursors :
          LET t2 == MoralisTxPageStep(task[1], networks[1], [data |-> data, cursor |-> c])
          IN Step(1, [t2 EXCEPT !.requests = IF @ > MaxCountedPages THEN MaxCountedPages ELSE @])

NextMoralisPage == MoralisPageArrives \/ RequestFails(1)

\* Every request is answered: the awaited moralisFetch settles.
SpecMoralisPage == InitMoralisPage /\ [][NextMoralisPage]_vars /\ WF_vars(NextMoralisPage)

\* C26: fetchTransactionsForChain terminates whatever the provider answers,
\* cursors on every page with empty pages included.
C26_MoralisTerminates == <>(task[1].pc # "fetching")

-----------------------------------------------------------------------------
(* SpecLimiter: applyRateLimit called on its own, any number of times per key
   and at any time *)

\* Half of the window of rate-limit.ts line 4: the step of Date.now() here.
HALF_WINDOW_MS == 30000

\* A call of applyRateLimit: its key, Date.now(), what it returned, and the
\* bucket it left (X-RateLimit-Reset shows expiresAt).
LimiterCall(key, now, rate, bucket) ==
    [key |-> key, at |-> now, ok |-> rate.ok, remaining |-> rate.remaining,
     count |-> bucket.count, expiresAt |-> bucket.expiresAt]

InitLimiter == InitRoute

\* rate-limit.ts applyRateLimit lines 35-70
ApplyRateLimit ==
    /\ Len(reqs) < MaxCalls
    /\ \E scope \in {"analyze", "history"}, identifier \in WalletAddrs :
          LET key == BucketKey(scope, identifier)
              counted == countRequest(key, clock)
          IN /\ buckets' = counted
             /\ reqs' = Append(reqs, LimiterCall(key, clock, rateResult(counted[key]), counted[key]))
    /\ UNCHANGED <<clock, cache, callVars, pureVars>>

\* Date.now() moves on between calls, in steps of half a window.
LimiterInstants == {0, HALF_WINDOW_MS, DEFAULT_WINDOW_MS, DEFAULT_WINDOW_MS + HALF_WINDOW_MS}

LimiterTick == /\ \E now \in LimiterInstants : now > clock /\ clock' = now
               /\ UNCHANGED <<buckets, cache, reqs, callVars, pureVars>>

NextLimiter == ApplyRateLimit \/ LimiterTick

SpecLimiter == InitLimiter /\ [][NextLimiter]_vars

\* The call before call k under the same key, 0 when k is the first.
CallBefore(k) ==
    LET earlier == {j \in 1..(k - 1) : reqs[j].key = reqs[k].key}
    IN IF earlier = {} THEN 0 ELSE CHOOSE j \in earlier : \A i \in earlier : i <= j

\* C29: the expiry of a bucket is set when the bucket is created, or created
\* again by the first call at or after its expiry, and no other call moves it,
\* whether allowed or denied; so the first call at or after the expiry is
\* allowed as the first of a new window, however many calls were denied
\* before it.
C29_Recovery ==
    \A k \in 1..Len(reqs) :
        LET j == CallBefore(k)
        IN IF j = 0 \/ reqs[j].expiresAt <= reqs[k].at
           THEN /\ reqs[k].expiresAt = reqs[k].at + DEFAULT_WINDOW_MS
                /\ reqs[k].count = 1
                /\ reqs[k].ok
                /\ reqs[k].remaining = DEFAULT_LIMIT - 1
           ELSE /\ reqs[k].expiresAt = reqs[j].expiresAt
                /\ reqs[k].count = reqs[j].count + 1
                /\ reqs[k].ok <=> reqs[k].count <= DEFAULT_LIMIT

\* C29 witness: a client was allowed twice, denied twice, and allowed again by
\* its first call at the expiry of the bucket.
C29_Witness ==
    /\ Len(reqs) = 5
    /\ \A k \in 2..5 : reqs[k].key = reqs[1].key
    /\ reqs[1].ok /\ reqs[2].ok
    /\ ~reqs[3].ok /\ ~reqs[4].ok
    /\ reqs[4].expiresAt = reqs[1].expiresAt
    /\ reqs[3].at < reqs[4].at
    /\ reqs[5].at = reqs[1].expiresAt
    /\ reqs[5].ok /\ reqs[5].remaining = DEFAULT_LIMIT - 1

-----------------------------------------------------------------------------
(* SpecReject: the analyze handler and part_011, the history handler that
   resolves the requested address first, serving requests that are rejected,
   denied, failed and answered *)

\* What ?address= holds on the resolving handler: nothing, a hex address in
\* capitals, a hex address one digit short, a name.
RequestedAddrs ==
    {NullAddr, Hex("A", HEX_DIGITS), Hex("a", HEX_DIGITS - 1), <<"q">> \o DotEth}

\* What the name service answers.
NameLookups == {LookupReply("ok", Hex("A", HEX_DIGITS)), LookupReply("throws", NullAddr)}

\* The address resolveAddress returned, as the handlers' buckets and caches
\* name it.
AddrKey(a) ==
    IF a = Hex("a", HEX_DIGITS) THEN "0xa"
    ELSE IF a = Hex("b", HEX_DIGITS) THEN "0xb" ELSE "0x?"

\* A request of part_011: pc is "resolving" while resolveAddress awaits the
\* name service.
ResolvingRequest(requested, addr, pc, status, xcache, payload, remaining) ==
    [route |-> "historyResolving", requested |-> requested, addr |-> addr, pc |-> pc,
     status |-> status, xcache |-> xcache, payload |-> payload, remaining |-> remaining,
     startedAt |-> clock, completedAt |-> clock]

Put(k, request) ==
    reqs' = IF k > Len(reqs) THEN Append(reqs, request) ELSE [reqs EXCEPT ![k] = request]

\* part_011 lines 25-27 and 32-35: the 400 responses
Rejected(k, requested) ==
    /\ Put(k, ResolvingRequest(requested, Null, "done", 400, Null, NoPayload, NoNum))
    /\ UNCHANGED <<buckets, cache>>

\* part_011 lines 39-56: from applyRateLimit to the call of getWalletHistory
Admitted(k, requested, addr) ==
    LET key == BucketKey("history", addr)
        counted == countRequest(key, clock)
        rate == rateResult(counted[key])
        at == <<"historyResolving", addr>>
        cached == at \in DOMAIN cache
        fresh == cached /\ cache[at].expiresAt > clock
    IN /\ buckets' = counted
       /\ IF ~rate.ok
          THEN /\ Put(k, ResolvingRequest(requested, addr, "done", 429, Null, NoPayload,
                                          rate.remaining))
               /\ UNCHANGED cache
          ELSE IF fresh
          THEN /\ Put(k, ResolvingRequest(requested, addr, "done", 200, "HIT",
                                          cache[at].payload, rate.remaining))
               /\ UNCHANGED cache
          ELSE /\ Put(k, ResolvingRequest(requested, addr, "fetching", 0, Null, NoPayload,
                                          rate.remaining))
               /\ cache' = IF cached THEN MapDelete(cache, at) ELSE cache

\* part_011 lines 29-37: resolveAddress has settled
AfterResolve(k, requested, result) ==
    IF result.kind = "throw"
    THEN Rejected(k, requested)
    ELSE Admitted(k, requested, AddrKey(result.value))

\* part_011 GET lines 22-31, and on to line 56 when no name is looked up
GetResolving(requested) ==
    /\ Len(reqs) < MaxRequests
    /\ IF requested = NullAddr \/ requested = <<>>
       THEN Rejected(Len(reqs) + 1, requested)
       ELSE IF looksUp(requested)
       THEN /\ Put(Len(reqs) + 1,
                   ResolvingRequest(requested, Null, "resolving", 0, Null, NoPayload, NoNum))
            /\ UNCHANGED <<buckets, cache>>
       ELSE AfterResolve(Len(reqs) + 1, requested,
                         resolveAddress(requested, LookupReply("throws", NullAddr)))
    /\ UNCHANGED <<clock, callVars, pureVars>>

\* part_011 GET from line 31 on, the name service having answered
NameResolved(r, reply) ==
    /\ reqs[r].pc = "resolving"
    /\ AfterResolve(r, reqs[r].requested, resolveAddress(reqs[r].requested, reply))
    /\ UNCHANGED <<clock, callVars, pureVars>>

InitReject == InitRoute

ArriveAnalyze == \E addr \in {"0xa", Null} : Get("analyze", addr)
ArriveResolving == \E requested \in RequestedAddrs : GetResolving(requested)
LookupReturns == \E r \in 1..Len(reqs) : \E reply \in NameLookups : NameResolved(r, reply)

NextReject == ArriveAnalyze \/ ArriveResolving \/ LookupReturns \/ Succeed \/ Fail \/ Tick

SpecReject == InitReject /\ [][NextReject]_vars

\* Request k is answered with `status` in this step; it was new, or waiting
\* for the name service, and not waiting for a provider.
Answered(k, status) ==
    /\ reqs'[k].pc = "done" /\ reqs'[k].status = status
    /\ k > Len(reqs) \/ reqs[k].pc # "done"
BeforeProvider(k) == k > Len(reqs) \/ reqs[k].pc = "resolving"

C30_Frame ==
    \A k \in 1..Len(reqs') :
        /\ Answered(k, 400) => buckets' = buckets /\ cache' = cache /\ BeforeProvider(k)
        /\ Answered(k, 429) => cache' = cache /\ BeforeProvider(k)
        /\ Answered(k, 500) => cache' = cache
        /\ k > Len(reqs) /\ reqs'[k].pc = "resolving" => buckets' = buckets /\ cache' = cache

C30_OnlySuccessful ==
    \A key \in DOMAIN cache :
        LET k == cache[key].payload.by
        IN /\ k \in 1..Len(reqs)
           /\ reqs[k].pc = "done" /\ reqs[k].status = 200 /\ reqs[k].xcache = "MISS"
           /\ cache[key].payload = reqs[k].payload

\* C30: a request answered 400, for a missing address or, on the resolving
\* history handler, for an address that does not resolve, changes neither the
\* buckets nor the cache and has called no provider, and while the name is
\* looked up nothing is counted or looked up in the cache; a request answered
\* 429 leaves the cache as it was and has called no provider; a request
\* answered 500 stores nothing, so every cache entry is the response of a
\* request whose provider call succeeded.
C30_RejectedLeaveState == []C30_OnlySuccessful /\ [][C30_Frame]_vars

\* C30 witness: after a response was cached and counted, a name failed to
\* resolve and was answered 400, and a provider call failed and was answered
\* 500; the entry is still there.
C30_Witness ==
    \E i, j, k \in 1..Len(reqs) :
        /\ Fetched200(j) /\ <<reqs[j].route, reqs[j].addr>> \in DOMAIN cache
        /\ reqs[i].route = "historyResolving" /\ reqs[i].status = 400
        /\ reqs[i].requested # NullAddr /\ looksUp(reqs[i].requested)
        /\ reqs[j].completedAt < reqs[i].startedAt
        /\ reqs[k].status = 500

====
